---- MODULE Spec2Model ----
(***************************************************************************)
(* A model of the invoicerr back office: the relational records the        *)
(* services read and write through the ORM, the quote / invoice status     *)
(* fields, the signature and danger-zone one-time codes, the totals the    *)
(* services derive from submitted items, and outbound webhook dispatch.    *)
(* Time is counted in minutes.                                             *)
(***************************************************************************)
EXTENDS Integers, Sequences, FiniteSets, TLC

(***************************************************************************)
(* Bounds of the model                                                     *)
(***************************************************************************)
MaxAdvances == 1
MaxQuotes == 1
MaxInvoices == 1
MaxReceipts == 1
MaxSignatures == 1
MaxItems == 2
MantissaBits == 8

(***************************************************************************)
(* Program constants                                                       *)
(***************************************************************************)
otpExpirationMinutes == 10
SignatureOtpMinutes == 15
SignatureValidityDays == 30
MinutesPerDay == 24 * 60

NULL == "null"
NoDate == -1
NoId == 0

Min(a, b) == IF a <= b THEN a ELSE b

(***************************************************************************)
(* JavaScript numbers.  The services compute totals in binary floating     *)
(* point, rounding every operation to the nearest representable value,     *)
(* ties to even.  A number is m * 2^e with m = 0 or                        *)
(* 2^(MantissaBits-1) <= m < 2^MantissaBits, so equal values have equal    *)
(* representations.  All amounts here are non-negative.                    *)
(***************************************************************************)
Pow2(k) == IF k <= 0 THEN 1 ELSE 2 ^ k

RECURSIVE BitLen(_)
BitLen(n) ==
    IF n = 0 THEN 0
    ELSE IF n >= 256 THEN 8 + BitLen(n \div 256)
    ELSE IF n >= 16 THEN 4 + BitLen(n \div 16)
    ELSE 1 + BitLen(n \div 2)

FZero == [m |-> 0, e |-> 0]

\* the float nearest to n * 2^e
Round(n, e) ==
    IF n = 0 THEN FZero
    ELSE LET len == BitLen(n) IN
         IF len <= MantissaBits
         THEN [m |-> n * Pow2(MantissaBits - len), e |-> e - (MantissaBits - len)]
         ELSE LET k == len - MantissaBits
                  q == n \div Pow2(k)
                  r == n % Pow2(k)
                  half == Pow2(k - 1)
                  q2 == IF r > half \/ (r = half /\ q % 2 = 1) THEN q + 1 ELSE q
              IN  IF q2 = Pow2(MantissaBits)
                  THEN [m |-> Pow2(MantissaBits - 1), e |-> e + k + 1]
                  ELSE [m |-> q2, e |-> e + k]

FromInt(n) == Round(n, 0)

FMul(a, b) == Round(a.m * b.m, a.e + b.e)

FAdd(a, b) ==
    IF a.m = 0 THEN b
    ELSE IF b.m = 0 THEN a
    ELSE LET lo == Min(a.e, b.e)
         IN  Round(a.m * Pow2(a.e - lo) + b.m * Pow2(b.e - lo), lo)

\* a / b with a guard digit and a sticky bit, b # 0
FDiv(a, b) ==
    IF a.m = 0 THEN FZero
    ELSE LET s == MantissaBits + 2
             n == a.m * Pow2(s)
             q == n \div b.m
             sticky == IF n % b.m = 0 THEN 0 ELSE 1
         IN  Round(2 * q + sticky, a.e - b.e - s - 1)

\* a >= b
FGe(a, b) ==
    LET lo == Min(a.e, b.e)
    IN  a.m * Pow2(a.e - lo) >= b.m * Pow2(b.e - lo)

F1 == FromInt(1)
F100 == FromInt(100)

VARIABLES
    now,                \* the wall clock (Date.now()), in minutes
    advances,           \* how many times the clock has been advanced
    users,              \* user table
    companies,          \* company table, in insertion order (findFirst reads the head)
    pdfConfigs,         \* pDFConfig table: company ids
    mailTemplates,      \* mailTemplate table: [companyId, type]
    clients,            \* client table: id -> record
    quotes,             \* quote table (with its items): id -> record
    invoices,           \* invoice table (with its items): id -> record
    receipts,           \* receipt table (with its items): id -> record
    recurringInvoices,  \* recurringInvoice table (with its items): id -> record
    paymentMethods,     \* paymentMethod table: id -> record
    signatures,         \* signature table: id -> record
    webhooks,           \* webhook table, in findMany order
    OTP,                \* DangerService.OTP
    otpExpirationTime,  \* DangerService.otpExpirationTime
    otpUses,            \* resets accepted since the last requestOtp (capped at 2)
    last,               \* outcome of the last service call
    invitations,        \* invitationCode table: code -> record
    plugins,            \* plugin table: id -> record
    loadedPlugins,      \* PluginsService.plugins: the paths of the loaded plugins, in order
    directories,        \* the directories of the file system
    requests            \* the calls in flight: request -> its position and local variables

vars == <<now, advances, users, companies, pdfConfigs, mailTemplates, clients,
          quotes, invoices, receipts, recurringInvoices, paymentMethods,
          signatures, webhooks, OTP, otpExpirationTime, otpUses, last,
          invitations, plugins, loadedPlugins, directories, requests>>

dbVars == <<users, companies, pdfConfigs, mailTemplates, clients, quotes,
            invoices, receipts, recurringInvoices, paymentMethods, signatures,
            webhooks>>
dangerVars == <<OTP, otpExpirationTime, otpUses>>
clockVars == <<now, advances>>
\* what the invitation, plugin and directory services and the calls in
\* flight read and write
extVars == <<invitations, plugins, loadedPlugins, directories, requests>>

(***************************************************************************)
(* Outcome of a service call: the operation, whether it returned or threw, *)
(* the exception message, the argument it was about, the value returned,   *)
(* and what happened to the webhook dispatches it made.                    *)
(***************************************************************************)
NoDispatch == [events |-> {}, attempted |-> {}, notified |-> {}, failed |-> FALSE, logged |-> FALSE]

Returned(op, arg, ret, d) ==
    [op |-> op, ok |-> TRUE, error |-> "", arg |-> arg, ret |-> ret, dispatch |-> d]

Threw(op, arg, msg) ==
    [op |-> op, ok |-> FALSE, error |-> msg, arg |-> arg, ret |-> NULL, dispatch |-> NoDispatch]

Falsy(x) == x = NULL \/ x = ""

\* s.trim() === '' (or s missing)
IsBlank(s) == s \in {NULL, "", " "}

EmptyTable == [x \in {} |-> x]

\* the id the database gives a new row of a table holding at most max rows
HasFreeId(tbl, max) == \E i \in 1..max : i \notin DOMAIN tbl
NewId(tbl, max) == CHOOSE i \in 1..max : i \notin DOMAIN tbl /\ \A j \in 1..(i - 1) : j \in DOMAIN tbl

Insert(tbl, id, rec) == [i \in DOMAIN tbl \cup {id} |-> IF i = id THEN rec ELSE tbl[i]]
Remove(tbl, id) == [i \in DOMAIN tbl \ {id} |-> tbl[i]]

(***************************************************************************)
(* WebhooksService.send and WebhookDispatcherService.dispatch.             *)
(* A payload is described by the two places dispatch looks for a company   *)
(* id; `fails` is the set of webhooks whose endpoint rejects the delivery. *)
(***************************************************************************)
NoCompany == [companyDotId |-> NULL, companyId |-> NULL]
OfCompany(id) == [companyDotId |-> id, companyId |-> NULL]

\* payload?.company?.id || payload?.companyId || null
PayloadCompanyId(payload) ==
    IF ~Falsy(payload.companyDotId) THEN payload.companyDotId
    ELSE IF ~Falsy(payload.companyId) THEN payload.companyId
    ELSE NULL

\* prisma.webhook.findMany({ where })
findWebhooks_anyCompany(event, companyId) ==
    SelectSeq(webhooks, LAMBDA w : event \in w.events)

findWebhooks(event, companyId) ==
    SelectSeq(webhooks, LAMBDA w :
        /\ event \in w.events
        /\ (companyId # NULL => w.companyId = companyId))

\* a loop that awaits each delivery in turn stops at the first failure
send_sequential(ws, fails) ==
    LET firstFail == IF \E i \in 1..Len(ws) : ws[i].id \in fails
                     THEN CHOOSE i \in 1..Len(ws) :
                              ws[i].id \in fails /\ \A j \in 1..(i - 1) : ws[j].id \notin fails
                     ELSE Len(ws)
    IN  [attempted |-> {ws[i].id : i \in 1..firstFail},
         delivered |-> {ws[i].id : i \in 1..firstFail} \ fails,
         threw |-> \E i \in 1..Len(ws) : ws[i].id \in fails]

\* Promise.all(webhooks.map(async ...)): every callback runs up to its
\* driver.send call before any result is awaited, so every delivery is
\* attempted; the call rejects when some delivery fails.
send(ws, fails) ==
    [attempted |-> {ws[i].id : i \in 1..Len(ws)},
     delivered |-> {ws[i].id : i \in 1..Len(ws)} \ fails,
     threw |-> \E i \in 1..Len(ws) : ws[i].id \in fails]

dispatch(event, payload, fails) ==
    LET ws == findWebhooks(event, PayloadCompanyId(payload))
        r == send(ws, fails)
    IN  [events |-> {event},
         attempted |-> {<<event, id>> : id \in r.attempted},
         notified |-> {<<event, id>> : id \in r.delivered},
         threw |-> r.threw]

\* try { await dispatch(...) } catch (error) { logger.error(...) } return ret
Finish_rethrow(op, arg, ret, d) ==
    IF d.threw
    THEN [op |-> op, ok |-> FALSE, error |-> "Error dispatching webhook", arg |-> arg,
          ret |-> NULL,
          dispatch |-> [events |-> d.events, attempted |-> d.attempted,
                        notified |-> d.notified, failed |-> TRUE, logged |-> FALSE]]
    ELSE Returned(op, arg, ret, [events |-> d.events, attempted |-> d.attempted,
                                 notified |-> d.notified, failed |-> FALSE, logged |-> FALSE])

Finish(op, arg, ret, d) ==
    Returned(op, arg, ret, [events |-> d.events, attempted |-> d.attempted,
                            notified |-> d.notified, failed |-> d.threw, logged |-> d.threw])

\* a call of WebhookDispatcherService.dispatch on its own: it logs the
\* failure of a delivery and throws it again
Dispatch(event, payload, fails) ==
    LET d == dispatch(event, payload, fails)
    IN  /\ last' = [op |-> "dispatch", ok |-> ~d.threw,
                    error |-> IF d.threw THEN "Error dispatching webhook" ELSE "",
                    arg |-> [event |-> event, payload |-> payload, fails |-> fails],
                    ret |-> NULL,
                    dispatch |-> [events |-> d.events, attempted |-> d.attempted,
                                  notified |-> d.notified, failed |-> d.threw,
                                  logged |-> d.threw]]
        /\ UNCHANGED <<dbVars, dangerVars, clockVars, extVars>>

(***************************************************************************)
(* The clock.  Every new Date() / Date.now() in the services reads `now`.  *)
(***************************************************************************)
AdvanceTime(d) ==
    /\ advances < MaxAdvances
    /\ now' = now + d
    /\ advances' = advances + 1
    /\ UNCHANGED <<dbVars, dangerVars, last, extVars>>

(***************************************************************************)
(* DangerService                                                           *)
(***************************************************************************)
\* otp.replace(/-/g, ''): codes are sequences of characters
RemoveDashes(code) == SelectSeq(code, LAMBDA c : c # "-")

\* requestOtp stores the code and its expiry before it sends the mail, so a
\* failed mail leaves the new code in place.
requestOtp(otp, mailOk) ==
    /\ OTP' = otp
    /\ otpExpirationTime' = now + otpExpirationMinutes
    /\ otpUses' = 0
    /\ last' = IF mailOk
                 THEN Returned("requestOtp", otp, NULL, NoDispatch)
                 ELSE Threw("requestOtp", otp, "Failed to send OTP email. Please check your SMTP configuration.")
    /\ UNCHANGED <<dbVars, clockVars, extVars>>

isOtpValid_noExpiry(otp) ==
    IF OTP = <<>> \/ otpExpirationTime = NoDate
    THEN FALSE
    ELSE OTP = RemoveDashes(otp)

isOtpValid(otp) ==
    IF OTP = <<>> \/ otpExpirationTime = NoDate
    THEN FALSE
    ELSE OTP = RemoveDashes(otp) /\ now < otpExpirationTime

\* the deleteMany calls of resetApp, in order; each empties one table
resetApp_deletes ==
    /\ companies' = <<>>
    /\ pdfConfigs' = {}
    /\ mailTemplates' = {}
    /\ clients' = EmptyTable
    /\ quotes' = EmptyTable
    /\ invoices' = EmptyTable
    /\ signatures' = EmptyTable
    /\ UNCHANGED <<users, receipts, recurringInvoices, paymentMethods, webhooks>>

resetApp(otp) ==
    IF ~isOtpValid(otp)
    THEN /\ last' = Threw("resetApp", otp, "Invalid or expired OTP")
         /\ UNCHANGED <<dbVars, dangerVars, clockVars, extVars>>
    ELSE /\ resetApp_deletes
         /\ otpUses' = Min(otpUses + 1, 2)
         /\ last' = Returned("resetApp", otp, NULL, NoDispatch)
         /\ UNCHANGED <<OTP, otpExpirationTime, clockVars, extVars>>

resetAll(otp) ==
    IF ~isOtpValid(otp)
    THEN /\ last' = Threw("resetAll", otp, "Invalid or expired OTP")
         /\ UNCHANGED <<dbVars, dangerVars, clockVars, extVars>>
    ELSE /\ OTP' = <<>>
         /\ otpExpirationTime' = NoDate
         /\ otpUses' = Min(otpUses + 1, 2)
         /\ last' = Returned("resetAll", otp, NULL, NoDispatch)
         /\ UNCHANGED <<dbVars, clockVars, extVars>>

(***************************************************************************)
(* CompanyService                                                          *)
(***************************************************************************)
CompanyIds == {"co1", "co2"}

MailTemplateTypes == {"SIGNATURE_REQUEST", "VERIFICATION_CODE", "INVOICE"}

\* prisma.company.findFirst()
HasCompany == companies # <<>>
Company == companies[1]

\* !!(company?.exemptVat && (company?.country || '').toUpperCase() === 'FRANCE')
ToUpperCase(s) ==
    CASE s = "France" -> "FRANCE"
      [] s = "france" -> "FRANCE"
      [] OTHER -> s

isVatExemptFrance(company) ==
    company.exemptVat /\ ToUpperCase(company.country) = "FRANCE"

VatExempt == HasCompany /\ isVatExemptFrance(Company)

editCompanyInfo(dto, newId, fails) ==
    IF HasCompany
    THEN LET updatedCompany == [id |-> Company.id, exemptVat |-> dto.exemptVat, country |-> dto.country]
         IN  /\ companies' = [companies EXCEPT ![1] = updatedCompany]
             /\ last' = Finish("editCompanyInfo", Company.id, updatedCompany,
                               dispatch("COMPANY_UPDATED", OfCompany(Company.id), fails))
             /\ UNCHANGED <<users, pdfConfigs, mailTemplates, clients, quotes, invoices, receipts,
                            recurringInvoices, paymentMethods, signatures, webhooks,
                            dangerVars, clockVars, extVars>>
    ELSE LET newCompany == [id |-> newId, exemptVat |-> dto.exemptVat, country |-> dto.country]
         IN  /\ companies' = <<newCompany>>
             /\ pdfConfigs' = pdfConfigs \cup {newId}
             /\ mailTemplates' = mailTemplates \cup
                    {[companyId |-> newId, type |-> t] : t \in MailTemplateTypes}
             /\ last' = Finish("editCompanyInfo", newId, newCompany,
                               dispatch("COMPANY_CREATED", OfCompany(newId), fails))
             /\ UNCHANGED <<users, clients, quotes, invoices, receipts, recurringInvoices,
                            paymentMethods, signatures, webhooks, dangerVars, clockVars, extVars>>

(***************************************************************************)
(* ClientsService                                                          *)
(***************************************************************************)
MaxClients == 1

\* the checks createClient and editClientsInfo make on the submitted fields
ClientError(type, dto) ==
    IF type = "INDIVIDUAL"
    THEN IF IsBlank(dto.contactFirstname) THEN "First name is required for individual clients"
         ELSE IF IsBlank(dto.contactLastname) THEN "Last name is required for individual clients"
         ELSE ""
    ELSE IF IsBlank(dto.name) THEN "Company name is required for company clients"
         ELSE IF IsBlank(dto.legalId) THEN "SIRET/SIREN (legalId) is required for company clients"
         ELSE ""

createClient(dto, fails) ==
    LET type == IF Falsy(dto.type) THEN "COMPANY" ELSE dto.type
        err == ClientError(type, dto)
    IN  IF err # ""
        THEN /\ last' = Threw("createClient", NoId, err)
             /\ UNCHANGED <<dbVars, dangerVars, clockVars, extVars>>
        ELSE /\ HasFreeId(clients, MaxClients)
             /\ LET id == NewId(clients, MaxClients)
                    newClient == [type |-> type, isActive |-> TRUE, contactEmail |-> dto.contactEmail]
                IN  /\ clients' = Insert(clients, id, newClient)
                    /\ last' = Finish("createClient", id, newClient,
                                      dispatch("CLIENT_CREATED", NoCompany, fails))
             /\ UNCHANGED <<users, companies, pdfConfigs, mailTemplates, quotes, invoices,
                            receipts, recurringInvoices, paymentMethods, signatures, webhooks,
                            dangerVars, clockVars, extVars>>

editClientsInfo(dto, fails) ==
    IF dto.id = NoId
    THEN /\ last' = Threw("editClientsInfo", NoId, "Client ID is required for editing")
         /\ UNCHANGED <<dbVars, dangerVars, clockVars, extVars>>
    ELSE IF dto.id \notin DOMAIN clients
    THEN /\ last' = Threw("editClientsInfo", dto.id, "Client not found")
         /\ UNCHANGED <<dbVars, dangerVars, clockVars, extVars>>
    ELSE LET existingClient == clients[dto.id]
             type == IF ~Falsy(dto.type) THEN dto.type ELSE existingClient.type
             err == ClientError(type, dto)
         IN  IF err # ""
             THEN /\ last' = Threw("editClientsInfo", dto.id, err)
                  /\ UNCHANGED <<dbVars, dangerVars, clockVars, extVars>>
             ELSE LET updatedClient == [type |-> type, isActive |-> TRUE,
                                        contactEmail |-> dto.contactEmail]
                  IN  /\ clients' = [clients EXCEPT ![dto.id] = updatedClient]
                      /\ last' = Finish("editClientsInfo", dto.id, updatedClient,
                                        dispatch("CLIENT_UPDATED", NoCompany, fails))
                      /\ UNCHANGED <<users, companies, pdfConfigs, mailTemplates, quotes,
                                     invoices, receipts, recurringInvoices, paymentMethods,
                                     signatures, webhooks, dangerVars, clockVars, extVars>>

deleteClient(id, fails) ==
    IF id \notin DOMAIN clients
    THEN /\ last' = Threw("deleteClient", id, "Client not found")
         /\ UNCHANGED <<dbVars, dangerVars, clockVars, extVars>>
    ELSE LET deletedClient == [clients[id] EXCEPT !.isActive = FALSE]
         IN  /\ clients' = [clients EXCEPT ![id] = deletedClient]
             /\ last' = Finish("deleteClient", id, deletedClient,
                               dispatch("CLIENT_DELETED", NoCompany, fails))
             /\ UNCHANGED <<users, companies, pdfConfigs, mailTemplates, quotes, invoices,
                            receipts, recurringInvoices, paymentMethods, signatures, webhooks,
                            dangerVars, clockVars, extVars>>

(***************************************************************************)
(* PaymentMethodsService                                                   *)
(***************************************************************************)
MaxPaymentMethods == 1

create(dto, fails) ==
    IF ~HasCompany
    THEN /\ last' = Threw("create", NoId, "No company found. Please create a company first.")
         /\ UNCHANGED <<dbVars, dangerVars, clockVars, extVars>>
    ELSE /\ HasFreeId(paymentMethods, MaxPaymentMethods)
         /\ LET id == NewId(paymentMethods, MaxPaymentMethods)
                pm == [companyId |-> Company.id, isActive |-> TRUE]
            IN  /\ paymentMethods' = Insert(paymentMethods, id, pm)
                /\ last' = Finish("create", id, pm,
                                  dispatch("PAYMENT_METHOD_CREATED", OfCompany(Company.id), fails))
         /\ UNCHANGED <<users, companies, pdfConfigs, mailTemplates, clients, quotes, invoices,
                        receipts, recurringInvoices, signatures, webhooks, dangerVars, clockVars, extVars>>

\* the one or two dispatches of update, inside one try block: the second is
\* skipped when the first one throws
updateDispatches(existing, dto, fails) ==
    LET first == dispatch("PAYMENT_METHOD_UPDATED", OfCompany(Company.id), fails)
        event == IF dto.isActive = "true" THEN "PAYMENT_METHOD_ACTIVATED"
                 ELSE "PAYMENT_METHOD_DEACTIVATED"
        second == dispatch(event, OfCompany(Company.id), fails)
        changed == dto.isActive # "undefined" /\ (dto.isActive = "true") # existing.isActive
    IN  IF first.threw \/ ~changed
        THEN first
        ELSE [events |-> first.events \cup second.events,
              attempted |-> first.attempted \cup second.attempted,
              notified |-> first.notified \cup second.notified,
              threw |-> second.threw]

update(id, dto, fails) ==
    IF id \notin DOMAIN paymentMethods
       \/ ~HasCompany
       \/ (HasCompany /\ id \in DOMAIN paymentMethods /\ paymentMethods[id].companyId # Company.id)
    THEN /\ last' = Threw("update", id, "Payment method not found")
         /\ UNCHANGED <<dbVars, dangerVars, clockVars, extVars>>
    ELSE LET existing == paymentMethods[id]
             updatedPm == [existing EXCEPT !.isActive =
                              IF dto.isActive = "undefined" THEN existing.isActive
                              ELSE dto.isActive = "true"]
         IN  /\ paymentMethods' = [paymentMethods EXCEPT ![id] = updatedPm]
             /\ last' = Finish("update", id, updatedPm, updateDispatches(existing, dto, fails))
             /\ UNCHANGED <<users, companies, pdfConfigs, mailTemplates, clients, quotes,
                            invoices, receipts, recurringInvoices, signatures, webhooks,
                            dangerVars, clockVars, extVars>>

softDelete(id, fails) ==
    IF id \notin DOMAIN paymentMethods
       \/ ~HasCompany
       \/ (HasCompany /\ id \in DOMAIN paymentMethods /\ paymentMethods[id].companyId # Company.id)
    THEN /\ last' = Threw("softDelete", id, "Payment method not found")
         /\ UNCHANGED <<dbVars, dangerVars, clockVars, extVars>>
    ELSE LET deletedPm == [paymentMethods[id] EXCEPT !.isActive = FALSE]
         IN  /\ paymentMethods' = [paymentMethods EXCEPT ![id] = deletedPm]
             /\ last' = Finish("softDelete", id, deletedPm,
                               dispatch("PAYMENT_METHOD_DELETED", OfCompany(Company.id), fails))
             /\ UNCHANGED <<users, companies, pdfConfigs, mailTemplates, clients, quotes,
                            invoices, receipts, recurringInvoices, signatures, webhooks,
                            dangerVars, clockVars, extVars>>


(***************************************************************************)
(* Totals of quotes and invoices.  A submitted item is                     *)
(* [ref, quantity, unitPrice, vatRate]: ref = 0 for an item without id,    *)
(* otherwise the position of the stored item whose id it carries (a ref    *)
(* beyond the stored items is an id that matches no stored item).          *)
(***************************************************************************)
RECURSIVE SumOver(_)
\* items.reduce((sum, item) => sum + f(item), 0), fs the values f(item)
SumOver(fs) ==
    IF fs = <<>> THEN FZero
    ELSE FAdd(SumOver(SubSeq(fs, 1, Len(fs) - 1)), fs[Len(fs)])

\* item.quantity * item.unitPrice
ItemHT(item) == FMul(FromInt(item.quantity), FromInt(item.unitPrice))

\* item.quantity * item.unitPrice * (item.vatRate || 0) / 100
ItemVAT(item) == FDiv(FMul(ItemHT(item), FromInt(item.vatRate)), F100)

\* item.quantity * item.unitPrice * (1 + (item.vatRate || 0) / 100)
ItemTTC(item) == FMul(ItemHT(item), FAdd(F1, FDiv(FromInt(item.vatRate), F100)))

\* the three reduce calls of createQuote, editQuote, createInvoice and
\* editInvoice, and the exemption that overrides two of them
computeTotals(items, exempt) ==
    LET totalHT == SumOver([i \in 1..Len(items) |-> ItemHT(items[i])])
        totalVAT == SumOver([i \in 1..Len(items) |-> ItemVAT(items[i])])
        totalTTC == SumOver([i \in 1..Len(items) |-> ItemTTC(items[i])])
    IN  [totalHT |-> totalHT,
         totalVAT |-> IF exempt THEN FZero ELSE totalVAT,
         totalTTC |-> IF exempt THEN totalHT ELSE totalTTC]

\* the row written for a submitted item
storedItem(item, exempt) ==
    [quantity |-> item.quantity, unitPrice |-> item.unitPrice,
     vatRate |-> IF exempt THEN 0 ELSE item.vatRate]

\* items: { create: items.map(...) }
createItems(items, exempt) == [i \in 1..Len(items) |-> storedItem(items[i], exempt)]

\* items: { deleteMany: ..., updateMany: ..., create: ... } of editQuote and
\* editInvoice: stored items no submitted item names are deleted, the others
\* take the values of the (last) submitted item naming them, and the
\* submitted items without id are added
editItems(existing, items, exempt) ==
    LET incoming == {items[i].ref : i \in 1..Len(items)} \ {0}
        keptIdx == SelectSeq([i \in 1..Len(existing) |-> i], LAMBDA i : i \in incoming)
        lastFor(i) == CHOOSE k \in 1..Len(items) :
                          items[k].ref = i /\ \A l \in (k + 1)..Len(items) : items[l].ref # i
        updated == [n \in 1..Len(keptIdx) |-> storedItem(items[lastFor(keptIdx[n])], exempt)]
        created == SelectSeq(items, LAMBDA it : it.ref = 0)
    IN  updated \o [n \in 1..Len(created) |-> storedItem(created[n], exempt)]

(***************************************************************************)
(* QuotesService                                                           *)
(***************************************************************************)
createQuote(body, fails) ==
    IF ~HasCompany
    THEN /\ last' = Threw("createQuote", NoId, "No company found. Please create a company first.")
         /\ UNCHANGED <<dbVars, dangerVars, clockVars, extVars>>
    ELSE IF body.clientId \notin DOMAIN clients
    THEN /\ last' = Threw("createQuote", NoId, "Client not found")
         /\ UNCHANGED <<dbVars, dangerVars, clockVars, extVars>>
    ELSE /\ HasFreeId(quotes, MaxQuotes)
         /\ LET id == NewId(quotes, MaxQuotes)
                exempt == isVatExemptFrance(Company)
                t == computeTotals(body.items, exempt)
                quote == [clientId |-> body.clientId, companyId |-> Company.id,
                          status |-> "DRAFT", isActive |-> TRUE,
                          totalHT |-> t.totalHT, totalVAT |-> t.totalVAT, totalTTC |-> t.totalTTC,
                          items |-> createItems(body.items, exempt)]
            IN  /\ quotes' = Insert(quotes, id, quote)
                /\ last' = Finish("createQuote", id, quote,
                                  dispatch("QUOTE_CREATED", OfCompany(Company.id), fails))
         /\ UNCHANGED <<users, companies, pdfConfigs, mailTemplates, clients, invoices, receipts,
                        recurringInvoices, paymentMethods, signatures, webhooks,
                        dangerVars, clockVars, extVars>>

editQuote(body, fails) ==
    IF body.id = NoId
    THEN /\ last' = Threw("editQuote", NoId, "Quote ID is required for editing")
         /\ UNCHANGED <<dbVars, dangerVars, clockVars, extVars>>
    ELSE IF body.id \notin DOMAIN quotes
    THEN /\ last' = Threw("editQuote", body.id, "Quote not found")
         /\ UNCHANGED <<dbVars, dangerVars, clockVars, extVars>>
    ELSE LET existingQuote == quotes[body.id]
             exempt == VatExempt
             t == computeTotals(body.items, exempt)
             updateQuote == [existingQuote EXCEPT
                                !.totalHT = t.totalHT, !.totalVAT = t.totalVAT,
                                !.totalTTC = t.totalTTC,
                                !.items = editItems(existingQuote.items, body.items, exempt)]
         IN  /\ quotes' = [quotes EXCEPT ![body.id] = updateQuote]
             /\ signatures' = [s \in DOMAIN signatures |->
                                  IF signatures[s].quoteId = body.id
                                  THEN [signatures[s] EXCEPT !.isActive = FALSE]
                                  ELSE signatures[s]]
             /\ last' = Finish("editQuote", body.id, updateQuote,
                               dispatch("QUOTE_UPDATED", OfCompany(updateQuote.companyId), fails))
             /\ UNCHANGED <<users, companies, pdfConfigs, mailTemplates, clients, invoices,
                            receipts, recurringInvoices, paymentMethods, webhooks,
                            dangerVars, clockVars, extVars>>

deleteQuote(id, fails) ==
    IF id \notin DOMAIN quotes
    THEN /\ last' = Threw("deleteQuote", id, "Quote not found")
         /\ UNCHANGED <<dbVars, dangerVars, clockVars, extVars>>
    ELSE LET deletedQuote == [quotes[id] EXCEPT !.isActive = FALSE]
         IN  /\ quotes' = [quotes EXCEPT ![id] = deletedQuote]
             /\ last' = Finish("deleteQuote", id, deletedQuote,
                               dispatch("QUOTE_DELETED", OfCompany(deletedQuote.companyId), fails))
             /\ UNCHANGED <<users, companies, pdfConfigs, mailTemplates, clients, invoices,
                            receipts, recurringInvoices, paymentMethods, signatures, webhooks,
                            dangerVars, clockVars, extVars>>

\* the storage upload that follows the dispatch is in its own try / catch
\* and writes nothing to the database
markQuoteAsSigned(id, fails) ==
    IF id = NoId
    THEN /\ last' = Threw("markQuoteAsSigned", NoId, "Quote ID is required")
         /\ UNCHANGED <<dbVars, dangerVars, clockVars, extVars>>
    ELSE IF id \notin DOMAIN quotes
    THEN /\ last' = Threw("markQuoteAsSigned", id, "Quote not found")
         /\ UNCHANGED <<dbVars, dangerVars, clockVars, extVars>>
    ELSE LET signedQuote == [quotes[id] EXCEPT !.status = "SIGNED"]
         IN  /\ quotes' = [quotes EXCEPT ![id] = signedQuote]
             /\ last' = Finish("markQuoteAsSigned", id, signedQuote,
                               dispatch("QUOTE_SIGNED", OfCompany(signedQuote.companyId), fails))
             /\ UNCHANGED <<users, companies, pdfConfigs, mailTemplates, clients, invoices,
                            receipts, recurringInvoices, paymentMethods, signatures, webhooks,
                            dangerVars, clockVars, extVars>>


(***************************************************************************)
(* SignaturesService                                                       *)
(***************************************************************************)
HasTemplate(companyId, type) == [companyId |-> companyId, type |-> type] \in mailTemplates

\* prisma.signature.updateMany({ where: { quoteId, isActive: true, id: { not: id } }, ... })
DeactivateOthers(sigs, quoteId, id) ==
    [s \in DOMAIN sigs |->
        IF sigs[s].quoteId = quoteId /\ sigs[s].isActive /\ s # id
        THEN [sigs[s] EXCEPT !.isActive = FALSE]
        ELSE sigs[s]]

\* sendSignatureEmail without a signing provider: the signature row is
\* created and the other signatures of the quote are deactivated before the
\* template lookup and the mail, either of which can still throw
sendSignatureEmail(quoteId, mailOk) ==
    LET id == NewId(signatures, MaxSignatures)
        signature == [quoteId |-> quoteId, isActive |-> TRUE, otpCode |-> NULL,
                      otpUsed |-> FALSE, createdAt |-> now,
                      expiresAt |-> now + SignatureValidityDays * MinutesPerDay]
        sigs == DeactivateOthers(Insert(signatures, id, signature), quoteId, id)
    IN  [signatures |-> sigs,
         id |-> id,
         error |-> IF ~HasTemplate(quotes[quoteId].companyId, "SIGNATURE_REQUEST")
                   THEN "Email template for signature request not found."
                   ELSE IF ~mailOk
                   THEN "Failed to send signature email. Please check your SMTP configuration."
                   ELSE ""]

\* provider: a signing plugin with a requestSignature function is active; it
\* is then asked for the signature and no signature row is written
createSignature(quoteId, provider, mailOk, fails) ==
    IF \/ quoteId \notin DOMAIN quotes
       \/ quotes[quoteId].clientId \notin DOMAIN clients
       \/ Falsy(clients[quotes[quoteId].clientId].contactEmail)
    THEN /\ last' = Threw("createSignature", quoteId, "Quote not found or client information is missing.")
         /\ UNCHANGED <<dbVars, dangerVars, clockVars, extVars>>
    ELSE IF provider
    THEN /\ quotes' = [quotes EXCEPT ![quoteId].status = "SENT"]
         /\ last' = Finish("createSignature", quoteId, NoId,
                           dispatch("SIGNATURE_CREATED", NoCompany, fails))
         /\ UNCHANGED <<users, companies, pdfConfigs, mailTemplates, clients, invoices, receipts,
                        recurringInvoices, paymentMethods, signatures, webhooks,
                        dangerVars, clockVars, extVars>>
    ELSE /\ HasFreeId(signatures, MaxSignatures)
         /\ LET r == sendSignatureEmail(quoteId, mailOk)
            IN  /\ signatures' = r.signatures
                /\ IF r.error # ""
                   THEN /\ last' = Threw("createSignature", quoteId, r.error)
                        /\ UNCHANGED quotes
                   ELSE /\ quotes' = [quotes EXCEPT ![quoteId].status = "SENT"]
                        /\ last' = Finish("createSignature", quoteId, r.id,
                                          dispatch("SIGNATURE_CREATED", NoCompany, fails))
         /\ UNCHANGED <<users, companies, pdfConfigs, mailTemplates, clients, invoices, receipts,
                        recurringInvoices, paymentMethods, webhooks, dangerVars, clockVars, extVars>>

\* prisma.signature.findFirst({ where: { id: signatureId, isActive: true } })
\* and the checks on what it selects
CanGenerateOTP(signatureId) ==
    /\ signatureId \in DOMAIN signatures
    /\ signatures[signatureId].isActive
    /\ signatures[signatureId].quoteId \in DOMAIN quotes
    /\ quotes[signatures[signatureId].quoteId].clientId \in DOMAIN clients
    /\ ~Falsy(clients[quotes[signatures[signatureId].quoteId].clientId].contactEmail)

\* sendOtpToUser: the signature is found again by its new code, then the
\* template is looked up and the mail sent
sendOtpToUser(companyId, mailOk) ==
    IF ~HasTemplate(companyId, "VERIFICATION_CODE") THEN "Email template for OTP code not found."
    ELSE IF ~mailOk THEN "Failed to send OTP email. Please check your SMTP configuration."
    ELSE ""

generateOTPCode(signatureId, otpCode, mailOk, fails) ==
    IF ~CanGenerateOTP(signatureId)
    THEN /\ last' = Threw("generateOTPCode", signatureId, "Quote not found or client information is missing.")
         /\ UNCHANGED <<dbVars, dangerVars, clockVars, extVars>>
    ELSE LET err == sendOtpToUser(quotes[signatures[signatureId].quoteId].companyId, mailOk)
         IN  /\ signatures' = [signatures EXCEPT ![signatureId] =
                                  [@ EXCEPT !.otpCode = otpCode, !.otpUsed = FALSE,
                                            !.expiresAt = now + SignatureOtpMinutes]]
             /\ last' = IF err # ""
                        THEN Threw("generateOTPCode", signatureId, err)
                        ELSE Finish("generateOTPCode", signatureId, otpCode,
                                    dispatch("SIGNATURE_OTP_GENERATED", NoCompany, fails))
             /\ UNCHANGED <<users, companies, pdfConfigs, mailTemplates, clients, quotes,
                            invoices, receipts, recurringInvoices, paymentMethods, webhooks,
                            dangerVars, clockVars, extVars>>

signQuote_Match_ignoreUsed(signatureId, otpCode) ==
    /\ signatureId \in DOMAIN signatures
    /\ signatures[signatureId].otpCode = otpCode
    /\ signatures[signatureId].isActive
    /\ signatures[signatureId].expiresAt >= now

\* the where clause of signQuote's findFirst
signQuote_Match(signatureId, otpCode) ==
    /\ signatureId \in DOMAIN signatures
    /\ signatures[signatureId].otpCode = otpCode
    /\ ~signatures[signatureId].otpUsed
    /\ signatures[signatureId].isActive
    /\ signatures[signatureId].expiresAt >= now

signQuote(signatureId, otpCode, fails) ==
    IF ~signQuote_Match(signatureId, otpCode)
    THEN /\ last' = Threw("signQuote", signatureId, "Invalid or expired OTP code.")
         /\ UNCHANGED <<dbVars, dangerVars, clockVars, extVars>>
    ELSE LET signature == signatures[signatureId]
         IN  /\ signatures' = [signatures EXCEPT ![signatureId] =
                                  [@ EXCEPT !.otpUsed = TRUE]]
             /\ quotes' = [quotes EXCEPT ![signature.quoteId].status = "SIGNED"]
             /\ last' = Finish("signQuote", signatureId, otpCode,
                               dispatch("SIGNATURE_COMPLETED", NoCompany, fails))
             /\ UNCHANGED <<users, companies, pdfConfigs, mailTemplates, clients, invoices,
                            receipts, recurringInvoices, paymentMethods, webhooks,
                            dangerVars, clockVars, extVars>>


(***************************************************************************)
(* InvoicesService                                                         *)
(***************************************************************************)
createInvoice(body, fails) ==
    IF ~HasCompany
    THEN /\ last' = Threw("createInvoice", NoId, "No company found. Please create a company first.")
         /\ UNCHANGED <<dbVars, dangerVars, clockVars, extVars>>
    ELSE IF body.clientId \notin DOMAIN clients
    THEN /\ last' = Threw("createInvoice", NoId, "Client not found")
         /\ UNCHANGED <<dbVars, dangerVars, clockVars, extVars>>
    ELSE /\ HasFreeId(invoices, MaxInvoices)
         /\ LET id == NewId(invoices, MaxInvoices)
                exempt == isVatExemptFrance(Company)
                t == computeTotals(body.items, exempt)
                invoice == [clientId |-> body.clientId, companyId |-> Company.id,
                            status |-> "UNPAID", isActive |-> TRUE,
                            totalHT |-> t.totalHT, totalVAT |-> t.totalVAT, totalTTC |-> t.totalTTC,
                            items |-> createItems(body.items, exempt)]
            IN  /\ invoices' = Insert(invoices, id, invoice)
                /\ last' = Finish("createInvoice", id, invoice,
                                  dispatch("INVOICE_CREATED", OfCompany(Company.id), fails))
         /\ UNCHANGED <<users, companies, pdfConfigs, mailTemplates, clients, quotes, receipts,
                        recurringInvoices, paymentMethods, signatures, webhooks,
                        dangerVars, clockVars, extVars>>

editInvoice(body, fails) ==
    IF body.id = NoId
    THEN /\ last' = Threw("editInvoice", NoId, "Invoice ID is required for editing")
         /\ UNCHANGED <<dbVars, dangerVars, clockVars, extVars>>
    ELSE IF ~HasCompany
    THEN /\ last' = Threw("editInvoice", body.id, "No company found. Please create a company first.")
         /\ UNCHANGED <<dbVars, dangerVars, clockVars, extVars>>
    ELSE IF body.clientId \notin DOMAIN clients
    THEN /\ last' = Threw("editInvoice", body.id, "Client not found")
         /\ UNCHANGED <<dbVars, dangerVars, clockVars, extVars>>
    ELSE IF body.id \notin DOMAIN invoices
    THEN /\ last' = Threw("editInvoice", body.id, "Invoice not found")
         /\ UNCHANGED <<dbVars, dangerVars, clockVars, extVars>>
    ELSE LET existingInvoice == invoices[body.id]
             exempt == isVatExemptFrance(Company)
             t == computeTotals(body.items, exempt)
             updateInvoice == [existingInvoice EXCEPT
                                  !.clientId = body.clientId,
                                  !.totalHT = t.totalHT, !.totalVAT = t.totalVAT,
                                  !.totalTTC = t.totalTTC,
                                  !.items = editItems(existingInvoice.items, body.items, exempt)]
         IN  /\ invoices' = [invoices EXCEPT ![body.id] = updateInvoice]
             /\ last' = Finish("editInvoice", body.id, updateInvoice,
                               dispatch("INVOICE_UPDATED", OfCompany(updateInvoice.companyId), fails))
             /\ UNCHANGED <<users, companies, pdfConfigs, mailTemplates, clients, quotes,
                            receipts, recurringInvoices, paymentMethods, signatures, webhooks,
                            dangerVars, clockVars, extVars>>

deleteInvoice(id, fails) ==
    IF id \notin DOMAIN invoices
    THEN /\ last' = Threw("deleteInvoice", id, "Invoice not found")
         /\ UNCHANGED <<dbVars, dangerVars, clockVars, extVars>>
    ELSE LET deletedInvoice == [invoices[id] EXCEPT !.isActive = FALSE]
         IN  /\ invoices' = [invoices EXCEPT ![id] = deletedInvoice]
             /\ last' = Finish("deleteInvoice", id, deletedInvoice,
                               dispatch("INVOICE_DELETED", OfCompany(deletedInvoice.companyId), fails))
             /\ UNCHANGED <<users, companies, pdfConfigs, mailTemplates, clients, quotes,
                            receipts, recurringInvoices, paymentMethods, signatures, webhooks,
                            dangerVars, clockVars, extVars>>

\* the storage upload that follows the dispatch is in its own try / catch
\* and writes nothing to the database
markInvoiceAsPaid(invoiceId, fails) ==
    IF invoiceId \notin DOMAIN invoices
    THEN /\ last' = Threw("markInvoiceAsPaid", invoiceId, "Invoice not found")
         /\ UNCHANGED <<dbVars, dangerVars, clockVars, extVars>>
    ELSE LET paidInvoice == [invoices[invoiceId] EXCEPT !.status = "PAID"]
         IN  /\ invoices' = [invoices EXCEPT ![invoiceId] = paidInvoice]
             /\ last' = Finish("markInvoiceAsPaid", invoiceId, paidInvoice,
                               dispatch("INVOICE_MARKED_AS_PAID", OfCompany(paidInvoice.companyId), fails))
             /\ UNCHANGED <<users, companies, pdfConfigs, mailTemplates, clients, quotes,
                            receipts, recurringInvoices, paymentMethods, signatures, webhooks,
                            dangerVars, clockVars, extVars>>

(***************************************************************************)
(* ReceiptsService.  A submitted receipt item is the amount paid.          *)
(***************************************************************************)
\* only the first item is counted
receiptTotal_firstItem(items) ==
    IF items = <<>> THEN FZero ELSE FromInt(items[1])

\* body.items.reduce((sum, item) => sum + +item.amountPaid, 0)
receiptTotal(items) == SumOver([i \in 1..Len(items) |-> FromInt(items[i])])

\* receipts.reduce((sum, receipt) => sum + receipt.totalPaid, 0) over the
\* receipts of the invoice, in id order
RECURSIVE paidFor(_, _, _)
paidFor(rcpts, invoiceId, n) ==
    IF n = 0 THEN FZero
    ELSE IF n \in DOMAIN rcpts /\ rcpts[n].invoiceId = invoiceId
    THEN FAdd(paidFor(rcpts, invoiceId, n - 1), rcpts[n].totalPaid)
    ELSE paidFor(rcpts, invoiceId, n - 1)

checkInvoiceAfterReceipt_reopen(invs, rcpts, invoiceId) ==
    IF FGe(paidFor(rcpts, invoiceId, MaxReceipts), invs[invoiceId].totalTTC)
    THEN [invs EXCEPT ![invoiceId].status = "PAID"]
    ELSE [invs EXCEPT ![invoiceId].status = "UNPAID"]

\* the invoice table after checkInvoiceAfterReceipt, given the receipt table
\* the caller has just written
checkInvoiceAfterReceipt(invs, rcpts, invoiceId) ==
    IF invs[invoiceId].status = "UNPAID"
    THEN IF FGe(paidFor(rcpts, invoiceId, MaxReceipts), invs[invoiceId].totalTTC)
         THEN [invs EXCEPT ![invoiceId].status = "PAID"]
         ELSE [invs EXCEPT ![invoiceId].status = "UNPAID"]
    ELSE invs

createReceipt(body, fails) ==
    IF body.invoiceId \notin DOMAIN invoices
    THEN /\ last' = Threw("createReceipt", NoId, "Invoice not found")
         /\ UNCHANGED <<dbVars, dangerVars, clockVars, extVars>>
    ELSE /\ HasFreeId(receipts, MaxReceipts)
         /\ LET id == NewId(receipts, MaxReceipts)
                receipt == [invoiceId |-> body.invoiceId, items |-> body.items,
                            totalPaid |-> receiptTotal(body.items)]
                rcpts == Insert(receipts, id, receipt)
            IN  /\ receipts' = rcpts
                /\ invoices' = checkInvoiceAfterReceipt(invoices, rcpts, body.invoiceId)
                /\ last' = Finish("createReceipt", id, receipt,
                                  dispatch("RECEIPT_CREATED",
                                           OfCompany(invoices[body.invoiceId].companyId), fails))
         /\ UNCHANGED <<users, companies, pdfConfigs, mailTemplates, clients, quotes,
                        recurringInvoices, paymentMethods, signatures, webhooks,
                        dangerVars, clockVars, extVars>>

editReceipt(body, fails) ==
    IF body.id \notin DOMAIN receipts
    THEN /\ last' = Threw("editReceipt", body.id, "Receipt not found")
         /\ UNCHANGED <<dbVars, dangerVars, clockVars, extVars>>
    ELSE LET existingReceipt == receipts[body.id]
             updatedReceipt == [existingReceipt EXCEPT !.items = body.items,
                                                       !.totalPaid = receiptTotal(body.items)]
             rcpts == [receipts EXCEPT ![body.id] = updatedReceipt]
         IN  /\ receipts' = rcpts
             /\ invoices' = checkInvoiceAfterReceipt(invoices, rcpts, existingReceipt.invoiceId)
             /\ last' = Finish("editReceipt", body.id, updatedReceipt,
                               dispatch("RECEIPT_UPDATED",
                                        OfCompany(invoices[existingReceipt.invoiceId].companyId), fails))
             /\ UNCHANGED <<users, companies, pdfConfigs, mailTemplates, clients, quotes,
                            recurringInvoices, paymentMethods, signatures, webhooks,
                            dangerVars, clockVars, extVars>>

deleteReceipt(id, fails) ==
    IF id \notin DOMAIN receipts
    THEN /\ last' = Threw("deleteReceipt", id, "Receipt not found")
         /\ UNCHANGED <<dbVars, dangerVars, clockVars, extVars>>
    ELSE LET existingReceipt == receipts[id]
             rcpts == Remove(receipts, id)
         IN  /\ receipts' = rcpts
             /\ invoices' = checkInvoiceAfterReceipt(invoices, rcpts, existingReceipt.invoiceId)
             /\ last' = Finish("deleteReceipt", id, existingReceipt,
                               dispatch("RECEIPT_DELETED",
                                        OfCompany(invoices[existingReceipt.invoiceId].companyId), fails))
             /\ UNCHANGED <<users, companies, pdfConfigs, mailTemplates, clients, quotes,
                            recurringInvoices, paymentMethods, signatures, webhooks,
                            dangerVars, clockVars, extVars>>

(***************************************************************************)
(* RecurringInvoicesService                                                *)
(***************************************************************************)
MaxRecurringInvoices == 1

\* the loop of createRecurringInvoice and updateRecurringInvoice
recurringTotals(items, exempt) ==
    LET vatRate(item) == IF exempt THEN FZero ELSE FromInt(item.vatRate)
        totalHT == SumOver([i \in 1..Len(items) |-> ItemHT(items[i])])
        totalVAT == SumOver([i \in 1..Len(items) |->
                                FMul(ItemHT(items[i]), FDiv(vatRate(items[i]), F100))])
    IN  [totalHT |-> totalHT,
         totalVAT |-> totalVAT,
         totalTTC |-> IF exempt THEN totalHT ELSE FAdd(totalHT, totalVAT)]

\* without a company the row would name company "1", and without the client
\* it would name a missing client: the insert fails on the foreign key
createRecurringInvoice(data, fails) ==
    IF ~HasCompany \/ data.clientId \notin DOMAIN clients
    THEN /\ last' = Threw("createRecurringInvoice", NoId, "Foreign key constraint violated")
         /\ UNCHANGED <<dbVars, dangerVars, clockVars, extVars>>
    ELSE /\ HasFreeId(recurringInvoices, MaxRecurringInvoices)
         /\ LET id == NewId(recurringInvoices, MaxRecurringInvoices)
                exempt == VatExempt
                t == recurringTotals(data.items, exempt)
                recurringInvoice == [clientId |-> data.clientId, companyId |-> Company.id,
                                     totalHT |-> t.totalHT, totalVAT |-> t.totalVAT,
                                     totalTTC |-> t.totalTTC,
                                     items |-> createItems(data.items, exempt)]
            IN  /\ recurringInvoices' = Insert(recurringInvoices, id, recurringInvoice)
                /\ last' = Finish("createRecurringInvoice", id, recurringInvoice,
                                  dispatch("RECURRING_INVOICE_CREATED", OfCompany(Company.id), fails))
         /\ UNCHANGED <<users, companies, pdfConfigs, mailTemplates, clients, quotes, invoices,
                        receipts, paymentMethods, signatures, webhooks, dangerVars, clockVars, extVars>>

updateRecurringInvoice(id, data, fails) ==
    IF id \notin DOMAIN recurringInvoices
    THEN /\ last' = Threw("updateRecurringInvoice", id, "Record to update not found")
         /\ UNCHANGED <<dbVars, dangerVars, clockVars, extVars>>
    ELSE LET exempt == VatExempt
             t == recurringTotals(data.items, exempt)
             recurringInvoice == [recurringInvoices[id] EXCEPT
                                     !.totalHT = t.totalHT, !.totalVAT = t.totalVAT,
                                     !.totalTTC = t.totalTTC,
                                     !.items = createItems(data.items, exempt)]
         IN  /\ recurringInvoices' = [recurringInvoices EXCEPT ![id] = recurringInvoice]
             /\ last' = Finish("updateRecurringInvoice", id, recurringInvoice,
                               dispatch("RECURRING_INVOICE_UPDATED",
                                        OfCompany(recurringInvoice.companyId), fails))
             /\ UNCHANGED <<users, companies, pdfConfigs, mailTemplates, clients, quotes,
                            invoices, receipts, paymentMethods, signatures, webhooks,
                            dangerVars, clockVars, extVars>>

deleteRecurringInvoice(id, fails) ==
    IF id \notin DOMAIN recurringInvoices
    THEN /\ last' = Threw("deleteRecurringInvoice", id, "Recurring invoice not found")
         /\ UNCHANGED <<dbVars, dangerVars, clockVars, extVars>>
    ELSE LET existingRecurringInvoice == recurringInvoices[id]
         IN  /\ recurringInvoices' = Remove(recurringInvoices, id)
             /\ last' = Finish("deleteRecurringInvoice", id, existingRecurringInvoice,
                               dispatch("RECURRING_INVOICE_DELETED",
                                        OfCompany(existingRecurringInvoice.companyId), fails))
             /\ UNCHANGED <<users, companies, pdfConfigs, mailTemplates, clients, quotes,
                            invoices, receipts, paymentMethods, signatures, webhooks,
                            dangerVars, clockVars, extVars>>


(***************************************************************************)
(* InvitationsService.  Every await is a point where another call may run, *)
(* so a call that reads and then writes is two steps: the read keeps what  *)
(* it found in the call's local variables, the write uses them.            *)
(***************************************************************************)
MaxRequests == 2

FreeRequest(r) == r \in 1..MaxRequests /\ r \notin DOMAIN requests

\* the code is 16 random bytes; a code already in the table violates the
\* unique index and is drawn again
createInvitation(code, createdById, expiresInDays) ==
    /\ createdById \in users
    /\ code \notin DOMAIN invitations
    /\ LET invitation == [createdById |-> createdById,
                          expiresAt |-> IF expiresInDays # 0
                                        THEN now + expiresInDays * MinutesPerDay
                                        ELSE NoDate,
                          usedAt |-> NoDate,
                          usedById |-> NULL]
       IN  /\ invitations' = Insert(invitations, code, invitation)
           /\ last' = Returned("createInvitation", code, invitation, NoDispatch)
    /\ UNCHANGED <<dbVars, dangerVars, clockVars, plugins, loadedPlugins, directories, requests>>

canRegister_Result_ignoreExpiry(invitationCode) ==
    IF users = {}
    THEN [allowed |-> TRUE, requiresCode |-> FALSE, message |-> ""]
    ELSE IF Falsy(invitationCode)
    THEN [allowed |-> FALSE, requiresCode |-> TRUE,
          message |-> "An invitation code is required to register"]
    ELSE IF invitationCode \notin DOMAIN invitations
    THEN [allowed |-> FALSE, requiresCode |-> TRUE, message |-> "Invalid invitation code"]
    ELSE IF invitations[invitationCode].usedAt # NoDate
    THEN [allowed |-> FALSE, requiresCode |-> TRUE,
          message |-> "This invitation code has already been used"]
    ELSE [allowed |-> TRUE, requiresCode |-> TRUE, message |-> ""]

\* what canRegister returns
canRegister_Result(invitationCode) ==
    IF users = {}
    THEN [allowed |-> TRUE, requiresCode |-> FALSE, message |-> ""]
    ELSE IF Falsy(invitationCode)
    THEN [allowed |-> FALSE, requiresCode |-> TRUE,
          message |-> "An invitation code is required to register"]
    ELSE IF invitationCode \notin DOMAIN invitations
    THEN [allowed |-> FALSE, requiresCode |-> TRUE, message |-> "Invalid invitation code"]
    ELSE IF invitations[invitationCode].usedAt # NoDate
    THEN [allowed |-> FALSE, requiresCode |-> TRUE,
          message |-> "This invitation code has already been used"]
    ELSE IF invitations[invitationCode].expiresAt # NoDate
            /\ invitations[invitationCode].expiresAt < now
    THEN [allowed |-> FALSE, requiresCode |-> TRUE,
          message |-> "This invitation code has expired"]
    ELSE [allowed |-> TRUE, requiresCode |-> TRUE, message |-> ""]

canRegister(invitationCode) ==
    /\ last' = Returned("canRegister", invitationCode, canRegister_Result(invitationCode),
                        NoDispatch)
    /\ UNCHANGED <<dbVars, dangerVars, clockVars, extVars>>

\* the three checks of useInvitation on the row it read: "" when it goes on
\* to the update
useInvitation_Error(code) ==
    IF code \notin DOMAIN invitations THEN "Invitation code not found"
    ELSE IF invitations[code].usedAt # NoDate
    THEN "This invitation code has already been used"
    ELSE IF invitations[code].expiresAt # NoDate /\ invitations[code].expiresAt < now
    THEN "This invitation code has expired"
    ELSE ""

\* useInvitation up to its update: findUnique and the checks
useInvitation_find(r, code, userId) ==
    /\ FreeRequest(r)
    /\ userId \in users
    /\ IF useInvitation_Error(code) # ""
       THEN /\ last' = Threw("useInvitation", code, useInvitation_Error(code))
            /\ UNCHANGED requests
       ELSE /\ requests' = Insert(requests, r, [op |-> "useInvitation", code |-> code,
                                                userId |-> userId])
            /\ UNCHANGED last
    /\ UNCHANGED <<dbVars, dangerVars, clockVars, invitations, plugins, loadedPlugins,
                   directories>>

\* the update of useInvitation, on the row whose id the call read
useInvitation_update(r) ==
    /\ r \in DOMAIN requests
    /\ requests[r].op = "useInvitation"
    /\ LET code == requests[r].code
           userId == requests[r].userId
       IN  /\ invitations' = [invitations EXCEPT ![code].usedAt = now,
                                                 ![code].usedById = userId]
           /\ last' = Returned("useInvitation", code, userId, NoDispatch)
    /\ requests' = Remove(requests, r)
    /\ UNCHANGED <<dbVars, dangerVars, clockVars, plugins, loadedPlugins, directories>>


(***************************************************************************)
(* DirectoryService.  A name is a sequence of characters; a path is a      *)
(* sequence of names that starts at the root (absolute) or at the working  *)
(* directory.                                                              *)
(***************************************************************************)
MaxDepth == 2

SegVar == <<"v", "a", "r">>
SegInvoicerr == <<"i", "n", "v", "o", "i", "c", "e", "r", "r">>
SegHome == <<"h", "o", "m", "e">>
SegTmp == <<"t", "m", "p">>
SegRoot == <<"r", "o", "o", "t">>
SegEtc == <<"e", "t", "c">>
Dot == <<".">>
DotDot == <<".", ".">>

\* '/var/invoicerr', '/home', '/tmp', process.env.HOME || '/root'
allowedRoots == << <<SegVar, SegInvoicerr>>, <<SegHome>>, <<SegTmp>>, <<SegRoot>> >>

RootPath == [absolute |-> TRUE, segs |-> <<>>]

\* path.normalize: empty names and '.' are dropped, '..' removes the name
\* before it, stays at the root of an absolute path and is kept at the head
\* of a relative one
RECURSIVE normalizeSegs(_, _, _)
normalizeSegs(absolute, done, rest) ==
    IF rest = <<>> THEN done
    ELSE LET seg == Head(rest)
             next == IF seg = <<>> \/ seg = Dot THEN done
                     ELSE IF seg = DotDot
                     THEN IF done # <<>> /\ done[Len(done)] # DotDot
                          THEN SubSeq(done, 1, Len(done) - 1)
                          ELSE IF absolute THEN done ELSE Append(done, seg)
                     ELSE Append(done, seg)
         IN  normalizeSegs(absolute, next, Tail(rest))

normalize(path) ==
    [absolute |-> path.absolute, segs |-> normalizeSegs(path.absolute, <<>>, path.segs)]

IsPrefix(p, q) == Len(p) <= Len(q) /\ SubSeq(q, 1, Len(p)) = p

\* normalizedPath === normalizedRoot || normalizedPath.startsWith(normalizedRoot + '/')
isPathAllowed(path) ==
    LET normalizedPath == normalize(path)
    IN  \E i \in 1..Len(allowedRoots) :
            normalizedPath.absolute /\ IsPrefix(allowedRoots[i], normalizedPath.segs)

Includes(name, chars) ==
    \E i \in 1..(Len(name) - Len(chars) + 1) : SubSeq(name, i, i + Len(chars) - 1) = chars

\* folderName.trim() === ''
TrimIsEmpty(name) == \A i \in 1..Len(name) : name[i] = " "

\* the first check of createDirectory that fails, "" when none does
createDirectory_Error(normalizedParent, folderName) ==
    IF normalizedParent # RootPath /\ ~isPathAllowed(normalizedParent)
    THEN "Access denied. Path is not within allowed directories."
    ELSE IF ~normalizedParent.absolute \/ normalizedParent.segs \notin directories
    THEN "Parent path does not exist"
    ELSE IF folderName = <<>> \/ TrimIsEmpty(folderName)
    THEN "Folder name cannot be empty"
    ELSE IF Includes(folderName, <<"/">>) \/ Includes(folderName, <<"\\">>)
    THEN "Folder name cannot contain path separators"
    ELSE IF Includes(folderName, DotDot)
    THEN "Folder name cannot contain parent directory references"
    ELSE IF normalizeSegs(TRUE, <<>>, Append(normalizedParent.segs, folderName)) \in directories
    THEN "Folder already exists"
    ELSE ""

createDirectory(parentPath, folderName) ==
    LET normalizedParent == normalize(parentPath)
        err == createDirectory_Error(normalizedParent, folderName)
        newPath == normalizeSegs(TRUE, <<>>, Append(normalizedParent.segs, folderName))
    IN  /\ IF err # ""
           THEN /\ last' = Threw("createDirectory", [parentPath |-> parentPath,
                                                     folderName |-> folderName], err)
                /\ UNCHANGED directories
           ELSE /\ directories' = directories \cup {newPath}
                /\ last' = Returned("createDirectory", [parentPath |-> parentPath,
                                                        folderName |-> folderName],
                                    newPath, NoDispatch)
        /\ UNCHANGED <<dbVars, dangerVars, clockVars, invitations, plugins, loadedPlugins,
                       requests>>


(***************************************************************************)
(* CompanyService.editCompanyInfo as the two database calls it awaits:     *)
(* findFirst, then update or create.  Another call may run between them.   *)
(***************************************************************************)
\* const existingCompany = await prisma.company.findFirst()
editCompanyInfo_findFirst(r, dto) ==
    /\ FreeRequest(r)
    /\ requests' = Insert(requests, r,
                          [op |-> "editCompanyInfo", dto |-> dto,
                           existingCompany |-> IF HasCompany THEN Company.id ELSE NULL])
    /\ UNCHANGED <<dbVars, dangerVars, clockVars, last, invitations, plugins, loadedPlugins,
                   directories>>

\* prisma.company.update on the row that was read, or prisma.company.create
\* when none was read; then the webhook dispatch
editCompanyInfo_write(r, newId, fails) ==
    /\ r \in DOMAIN requests
    /\ requests[r].op = "editCompanyInfo"
    /\ LET dto == requests[r].dto
           existingCompany == requests[r].existingCompany
       IN  IF existingCompany # NULL
           THEN LET updatedCompany == [id |-> existingCompany, exemptVat |-> dto.exemptVat,
                                       country |-> dto.country]
                IN  /\ companies' = [i \in DOMAIN companies |->
                                        IF companies[i].id = existingCompany
                                        THEN updatedCompany ELSE companies[i]]
                    /\ last' = Finish("editCompanyInfo", existingCompany, updatedCompany,
                                      dispatch("COMPANY_UPDATED", OfCompany(existingCompany),
                                               fails))
                    /\ UNCHANGED <<pdfConfigs, mailTemplates>>
           ELSE LET newCompany == [id |-> newId, exemptVat |-> dto.exemptVat,
                                   country |-> dto.country]
                IN  /\ \A i \in DOMAIN companies : companies[i].id # newId
                    /\ companies' = Append(companies, newCompany)
                    /\ pdfConfigs' = pdfConfigs \cup {newId}
                    /\ mailTemplates' = mailTemplates \cup
                           {[companyId |-> newId, type |-> t] : t \in MailTemplateTypes}
                    /\ last' = Finish("editCompanyInfo", newId, newCompany,
                                      dispatch("COMPANY_CREATED", OfCompany(newId), fails))
    /\ requests' = Remove(requests, r)
    /\ UNCHANGED <<users, clients, quotes, invoices, receipts, recurringInvoices,
                   paymentMethods, signatures, webhooks, dangerVars, clockVars,
                   invitations, plugins, loadedPlugins, directories>>


(***************************************************************************)
(* PluginsService: loading the plugins found on disk.  directories holds   *)
(* the path of every entry of the file system; an entry whose name has an  *)
(* extension is a file.                                                    *)
(***************************************************************************)
SegPlugins == <<"i", "n", "v", "o", "i", "c", "e", "r", "r", "-", "p", "l", "u", "g", "i", "n", "s">>
SegSrc == <<"s", "r", "c">>
SegInAppPlugins == <<"i", "n", "-", "a", "p", "p", "-", "p", "l", "u", "g", "i", "n", "s">>

\* process.env.PLUGIN_DIR || '/root/invoicerr-plugins'
PLUGIN_DIR == <<SegRoot, SegPlugins>>
\* [PLUGIN_DIR, join(process.cwd(), 'src', 'in-app-plugins')]
PLUGIN_DIRS == <<PLUGIN_DIR, <<SegSrc, SegInAppPlugins>> >>

\* path.extname: from the last '.' of the name on, '' when the name has no
\* '.' after its first character
extname(name) ==
    LET dots == {i \in 2..Len(name) : name[i] = "."}
    IN  IF dots = {} THEN <<>>
        ELSE LET i == CHOOSE i \in dots : \A j \in dots : j <= i
             IN  SubSeq(name, i, Len(name))

existsSync(path) == path \in directories
isDirectory(path) == path \in directories /\ extname(path[Len(path)]) = <<>>
readdirSync(path) == {p[Len(p)] : p \in {q \in directories : Len(q) = Len(path) + 1
                                                             /\ IsPrefix(path, q)}}

RECURSIVE SortedNames(_)
SortedNames(S) ==
    IF S = {} THEN <<>>
    ELSE LET x == CHOOSE x \in S : TRUE IN <<x>> \o SortedNames(S \ {x})

\* the files.find of loadPluginFromPath: <<>> when the directory has no .js file
jsFileOf(pluginPath) ==
    LET js == {f \in readdirSync(pluginPath) : extname(f) = <<".", "j", "s">>}
    IN  IF js = {} THEN <<>> ELSE CHOOSE f \in js : TRUE

\* loadPluginFromPath pushes the plugin, or throws and pushes nothing
loadPluginFromPath_plugins(loaded, pluginPath) ==
    IF jsFileOf(pluginPath) = <<>> THEN loaded
    ELSE Append(loaded, Append(pluginPath, jsFileOf(pluginPath)))

RECURSIVE loadPluginsOf(_, _, _)
loadPluginsOf(loaded, pluginDir, dirs) ==
    IF dirs = <<>> THEN loaded
    ELSE loadPluginsOf(loadPluginFromPath_plugins(loaded, Append(pluginDir, Head(dirs))),
                       pluginDir, Tail(dirs))

\* the for loop of loadExistingPlugins over PLUGIN_DIRS, from index i on:
\* a directory that does not exist ends the whole call
RECURSIVE loadExistingPlugins_from(_, _)
loadExistingPlugins_from(loaded, i) ==
    IF i > Len(PLUGIN_DIRS) THEN loaded
    ELSE LET pluginDir == PLUGIN_DIRS[i]
             dirs == SortedNames({f \in readdirSync(pluginDir) :
                                     isDirectory(Append(pluginDir, f))})
         IN  IF ~existsSync(pluginDir) THEN loaded
             ELSE loadExistingPlugins_from(loadPluginsOf(loaded, pluginDir, dirs), i + 1)

\* called once, by the constructor of the first PluginsService
loadExistingPlugins ==
    /\ last.op = "init"
    /\ loadedPlugins' = loadExistingPlugins_from(loadedPlugins, 1)
    /\ last' = Returned("loadExistingPlugins", NoId, NULL, NoDispatch)
    /\ UNCHANGED <<dbVars, dangerVars, clockVars, invitations, plugins, directories, requests>>


(***************************************************************************)
(* PluginsService: activating and configuring the in-app plugins.  A row   *)
(* of the plugin table is [name, type, isActive, config, hasWebhook];      *)
(* hasForm says whether the provider of the plugin has a configuration     *)
(* form.                                                                   *)
(***************************************************************************)
PluginTypes == {"SIGNING", "PDF_FORMAT", "PAYMENT", "OIDC"}

\* PluginRegistry.multiInstancePluginTypes
multiInstancePluginTypes == {"PAYMENT"}

\* prisma.plugin.findFirst({ where: { type, isActive: true, id: plugin.id } })
existingActivePlugin_sameId(id) ==
    {p \in DOMAIN plugins : /\ plugins[p].type = plugins[id].type
                            /\ plugins[p].isActive
                            /\ p = id}

\* prisma.plugin.findFirst({ where: { type, isActive: true, id: { not: plugin.id } } }):
\* the rows findFirst can return
existingActivePlugin(id) ==
    {p \in DOMAIN plugins : /\ plugins[p].type = plugins[id].type
                            /\ plugins[p].isActive
                            /\ p # id}

AnotherPluginActive(name, type) ==
    "Another plugin \"" \o name \o "\" is already active for category \"" \o type
        \o "\". Please disable it first."

PluginNotFound(id) == "Plugin with id \"" \o id \o "\" not found"

\* pluginValidation sets the webhook URL and secret when the provider of the
\* plugin handles webhooks and clears them when it does not
pluginValidation(tbl, id, handlesWebhook) ==
    [tbl EXCEPT ![id].hasWebhook = handlesWebhook]

toggleInAppPlugin(id, hasForm, handlesWebhook) ==
    /\ IF id \notin DOMAIN plugins
       THEN /\ last' = Threw("toggleInAppPlugin", id, PluginNotFound(id))
            /\ UNCHANGED plugins
       ELSE IF plugins[id].isActive
       THEN /\ plugins' = [plugins EXCEPT ![id].isActive = FALSE, ![id].hasWebhook = FALSE]
            /\ last' = Returned("toggleInAppPlugin", id, "success", NoDispatch)
       ELSE IF existingActivePlugin(id) # {}
               /\ plugins[id].type \notin multiInstancePluginTypes
       THEN /\ \E p \in existingActivePlugin(id) :
                   last' = Threw("toggleInAppPlugin", id,
                                 AnotherPluginActive(plugins[p].name, plugins[id].type))
            /\ UNCHANGED plugins
       ELSE IF hasForm
       THEN /\ last' = Returned("toggleInAppPlugin", id, "requiresConfiguration", NoDispatch)
            /\ UNCHANGED plugins
       ELSE /\ plugins' = pluginValidation([plugins EXCEPT ![id].isActive = TRUE], id,
                                           handlesWebhook)
            /\ last' = Returned("toggleInAppPlugin", id, "success", NoDispatch)
    /\ UNCHANGED <<dbVars, dangerVars, clockVars, invitations, loadedPlugins, directories,
                   requests>>

configureInAppPlugin(id, config, handlesWebhook) ==
    /\ IF id \notin DOMAIN plugins
       THEN /\ last' = Threw("configureInAppPlugin", id, PluginNotFound(id))
            /\ UNCHANGED plugins
       ELSE IF existingActivePlugin(id) # {}
       THEN /\ \E p \in existingActivePlugin(id) :
                   last' = Threw("configureInAppPlugin", id,
                                 AnotherPluginActive(plugins[p].name, plugins[id].type))
            /\ UNCHANGED plugins
       ELSE /\ plugins' = pluginValidation([plugins EXCEPT ![id].config = config,
                                                           ![id].isActive = TRUE], id,
                                           handlesWebhook)
            /\ last' = Returned("configureInAppPlugin", id, "success", NoDispatch)
    /\ UNCHANGED <<dbVars, dangerVars, clockVars, invitations, loadedPlugins, directories,
                   requests>>


(***************************************************************************)
(* DashboardService: revenue of a month and of a year.  A Date is the      *)
(* number of minutes since the first day of BaseYear, 00:00 local time.    *)
(***************************************************************************)
BaseYear == 2024

IsLeapYear(y) == (y % 4 = 0 /\ y % 100 # 0) \/ y % 400 = 0
DaysInYear(y) == IF IsLeapYear(y) THEN 366 ELSE 365
\* month is 0 (January) to 11 (December), as in Date
DaysInMonth(y, month) ==
    IF month = 1 THEN (IF IsLeapYear(y) THEN 29 ELSE 28)
    ELSE IF month \in {3, 5, 8, 10} THEN 30 ELSE 31

RECURSIVE DaysBeforeYear(_)
DaysBeforeYear(y) == IF y <= BaseYear THEN 0 ELSE DaysBeforeYear(y - 1) + DaysInYear(y - 1)

RECURSIVE DaysBeforeMonth(_, _)
DaysBeforeMonth(y, month) ==
    IF month = 0 THEN 0 ELSE DaysBeforeMonth(y, month - 1) + DaysInMonth(y, month - 1)

\* new Date(year, month, day): midnight of that day; month 12 is January of
\* the next year and day 0 is the last day of the month before
NewDate(y, month, day) ==
    LET yy == y + (month \div 12)
        mm == month % 12
    IN  (DaysBeforeYear(yy) + DaysBeforeMonth(yy, mm) + (day - 1)) * MinutesPerDay

getFullYear(date) ==
    CHOOSE y \in BaseYear..(BaseYear + (date \div (365 * MinutesPerDay)) + 1) :
        NewDate(y, 0, 1) <= date /\ date < NewDate(y + 1, 0, 1)

getMonth(date) ==
    CHOOSE month \in 0..11 :
        /\ NewDate(getFullYear(date), month, 1) <= date
        /\ date < NewDate(getFullYear(date), month + 1, 1)

\* the ids of the PAID invoices with gte <= createdAt <= lte
PaidInvoicesBetween(gte, lte) ==
    {i \in DOMAIN invoices : /\ invoices[i].status = "PAID"
                             /\ gte <= invoices[i].createdAt
                             /\ invoices[i].createdAt <= lte}

\* convertedAmounts.reduce((total, amount) => total + amount, 0); every
\* invoice is in the currency of its company, so convertToMainCurrency
\* returns its totalTTC
RECURSIVE RevenueOf(_)
RevenueOf(ids) ==
    IF ids = {} THEN FZero
    ELSE LET i == CHOOSE i \in ids : \A j \in ids : j <= i
         IN  FAdd(RevenueOf(ids \ {i}), invoices[i].totalTTC)

getMonthlyRevenue(date) ==
    LET startOfMonth == NewDate(getFullYear(date), getMonth(date), 1)
        endOfMonth == NewDate(getFullYear(date), getMonth(date) + 1, 0)
    IN  /\ last' = Returned("getMonthlyRevenue", date,
                            RevenueOf(PaidInvoicesBetween(startOfMonth, endOfMonth)), NoDispatch)
        /\ UNCHANGED <<dbVars, dangerVars, clockVars, extVars>>

getYearlyRevenue(date) ==
    LET startOfYear == NewDate(getFullYear(date), 0, 1)
        endOfYear == NewDate(getFullYear(date) + 1, 0, 0)
    IN  /\ last' = Returned("getYearlyRevenue", date,
                            RevenueOf(PaidInvoicesBetween(startOfYear, endOfYear)), NoDispatch)
        /\ UNCHANGED <<dbVars, dangerVars, clockVars, extVars>>


(***************************************************************************)
(* Initial state: an empty database with one registered user and the       *)
(* configured webhooks; no one-time code has been requested.               *)
(***************************************************************************)
\* no invitation, no plugin, no entry of the file system, no call in flight
InitExt ==
    /\ invitations = EmptyTable
    /\ plugins = EmptyTable
    /\ loadedPlugins = <<>>
    /\ directories = {}
    /\ requests = EmptyTable

InitialWebhooks ==
    << [id |-> "w1", companyId |-> "co1", events |-> {"QUOTE_CREATED", "CLIENT_CREATED"}],
       [id |-> "w2", companyId |-> "co2", events |-> {"QUOTE_CREATED"}],
       [id |-> "w3", companyId |-> "co1", events |-> {"INVOICE_CREATED"}] >>

Init ==
    /\ now = 0
    /\ advances = 0
    /\ users = {"u1"}
    /\ companies = <<>>
    /\ pdfConfigs = {}
    /\ mailTemplates = {}
    /\ clients = EmptyTable
    /\ quotes = EmptyTable
    /\ invoices = EmptyTable
    /\ receipts = EmptyTable
    /\ recurringInvoices = EmptyTable
    /\ paymentMethods = EmptyTable
    /\ signatures = EmptyTable
    /\ webhooks = InitialWebhooks
    /\ OTP = <<>>
    /\ otpExpirationTime = NoDate
    /\ otpUses = 0
    /\ last = Returned("init", NoId, NULL, NoDispatch)
    /\ InitExt

(***************************************************************************)
(* Quotes and their signatures                                             *)
(***************************************************************************)
SomeCompany == [exemptVat |-> FALSE, country |-> "France"]
CompanyClient == [id |-> NoId, type |-> NULL, name |-> "Acme", legalId |-> "123",
                  contactFirstname |-> NULL, contactLastname |-> NULL,
                  contactEmail |-> "client@acme.test"]
OneItem == << [ref |-> 0, quantity |-> 1, unitPrice |-> 3, vatRate |-> 5] >>
SignatureOtpCodes == {"11112222", "33334444"}
SignatureTimeSteps == {SignatureOtpMinutes, SignatureOtpMinutes + 1,
                       SignatureValidityDays * MinutesPerDay + 1}

NextQuotes ==
    \/ editCompanyInfo(SomeCompany, "co1", {})
    \/ createClient(CompanyClient, {})
    \/ createQuote([clientId |-> 1, items |-> OneItem], {})
    \/ \E q \in 1..MaxQuotes : editQuote([id |-> q, items |-> OneItem], {})
    \/ \E q \in 1..MaxQuotes, provider \in BOOLEAN, mailOk \in BOOLEAN :
           createSignature(q, provider, mailOk, {})
    \/ \E s \in 1..MaxSignatures, c \in SignatureOtpCodes, mailOk \in BOOLEAN :
           generateOTPCode(s, c, mailOk, {})
    \/ \E s \in 1..MaxSignatures, c \in SignatureOtpCodes : signQuote(s, c, {})
    \/ \E q \in 1..MaxQuotes : markQuoteAsSigned(q, {})

SpecQuotes == Init /\ [][NextQuotes]_vars

\* a database holding a company, one of its clients and a draft quote for
\* that client, as editCompanyInfo, createClient and createQuote leave it
InitSignatures ==
    /\ now = 0
    /\ advances = 0
    /\ users = {"u1"}
    /\ companies = << [id |-> "co1", exemptVat |-> FALSE, country |-> "France"] >>
    /\ pdfConfigs = {"co1"}
    /\ mailTemplates = {[companyId |-> "co1", type |-> t] : t \in MailTemplateTypes}
    /\ clients = Insert(EmptyTable, 1, [type |-> "COMPANY", isActive |-> TRUE,
                                        contactEmail |-> "client@acme.test"])
    /\ quotes = Insert(EmptyTable, 1,
                       [clientId |-> 1, companyId |-> "co1", status |-> "DRAFT", isActive |-> TRUE,
                        totalHT |-> computeTotals(OneItem, FALSE).totalHT,
                        totalVAT |-> computeTotals(OneItem, FALSE).totalVAT,
                        totalTTC |-> computeTotals(OneItem, FALSE).totalTTC,
                        items |-> createItems(OneItem, FALSE)])
    /\ invoices = EmptyTable
    /\ receipts = EmptyTable
    /\ recurringInvoices = EmptyTable
    /\ paymentMethods = EmptyTable
    /\ signatures = EmptyTable
    /\ webhooks = InitialWebhooks
    /\ OTP = <<>>
    /\ otpExpirationTime = NoDate
    /\ otpUses = 0
    /\ last = Returned("init", NoId, NULL, NoDispatch)
    /\ InitExt

NextSignatures ==
    \/ \E d \in SignatureTimeSteps : AdvanceTime(d)
    \/ editQuote([id |-> 1, items |-> OneItem], {})
    \/ \E mailOk \in BOOLEAN : createSignature(1, FALSE, mailOk, {})
    \/ \E s \in 1..MaxSignatures, c \in SignatureOtpCodes, mailOk \in BOOLEAN :
           generateOTPCode(s, c, mailOk, {})
    \/ \E s \in 1..MaxSignatures, c \in SignatureOtpCodes : signQuote(s, c, {})

SpecSignatures == InitSignatures /\ [][NextSignatures]_vars

(***************************************************************************)
(* Invoices and their receipts                                             *)
(***************************************************************************)
TwoUnits == << [ref |-> 1, quantity |-> 2, unitPrice |-> 3, vatRate |-> 5] >>
ReceiptAmounts == {1, 4}

\* a database holding a company and one of its clients
InitInvoices ==
    /\ now = 0
    /\ advances = 0
    /\ users = {"u1"}
    /\ companies = << [id |-> "co1", exemptVat |-> FALSE, country |-> "France"] >>
    /\ pdfConfigs = {"co1"}
    /\ mailTemplates = {[companyId |-> "co1", type |-> t] : t \in MailTemplateTypes}
    /\ clients = Insert(EmptyTable, 1, [type |-> "COMPANY", isActive |-> TRUE,
                                        contactEmail |-> "client@acme.test"])
    /\ quotes = EmptyTable
    /\ invoices = EmptyTable
    /\ receipts = EmptyTable
    /\ recurringInvoices = EmptyTable
    /\ paymentMethods = EmptyTable
    /\ signatures = EmptyTable
    /\ webhooks = InitialWebhooks
    /\ OTP = <<>>
    /\ otpExpirationTime = NoDate
    /\ otpUses = 0
    /\ last = Returned("init", NoId, NULL, NoDispatch)
    /\ InitExt

NextInvoices ==
    \/ createInvoice([clientId |-> 1, items |-> OneItem], {})
    \/ \E i \in 1..MaxInvoices, items \in {OneItem, TwoUnits} :
           editInvoice([id |-> i, clientId |-> 1, items |-> items], {})
    \/ \E i \in 1..MaxInvoices : deleteInvoice(i, {})
    \/ \E i \in 1..MaxInvoices : markInvoiceAsPaid(i, {})
    \/ \E i \in 1..MaxInvoices, a \in ReceiptAmounts :
           createReceipt([invoiceId |-> i, items |-> <<a>>], {})
    \/ \E r \in 1..MaxReceipts, a \in ReceiptAmounts :
           editReceipt([id |-> r, items |-> <<a>>], {})
    \/ \E r \in 1..MaxReceipts : deleteReceipt(r, {})

SpecInvoices == InitInvoices /\ [][NextInvoices]_vars


(***************************************************************************)
(* Every mutating operation, with webhooks subscribed to every event       *)
(***************************************************************************)
MaxRecords == 3

AllEvents ==
    {"CLIENT_CREATED", "CLIENT_UPDATED", "CLIENT_DELETED",
     "QUOTE_CREATED", "QUOTE_UPDATED", "QUOTE_DELETED", "QUOTE_SIGNED",
     "INVOICE_CREATED", "INVOICE_UPDATED", "INVOICE_DELETED", "INVOICE_MARKED_AS_PAID",
     "RECEIPT_CREATED", "RECEIPT_UPDATED", "RECEIPT_DELETED",
     "RECURRING_INVOICE_CREATED", "RECURRING_INVOICE_UPDATED", "RECURRING_INVOICE_DELETED",
     "PAYMENT_METHOD_CREATED", "PAYMENT_METHOD_UPDATED", "PAYMENT_METHOD_DELETED",
     "PAYMENT_METHOD_ACTIVATED", "PAYMENT_METHOD_DEACTIVATED"}

SubscribedWebhooks ==
    << [id |-> "w1", companyId |-> "co1", events |-> AllEvents],
       [id |-> "w2", companyId |-> "co2", events |-> AllEvents] >>

\* the rows in the tables the operations below create
Records ==
    Cardinality(DOMAIN clients) + Cardinality(DOMAIN quotes) + Cardinality(DOMAIN invoices)
    + Cardinality(DOMAIN receipts) + Cardinality(DOMAIN recurringInvoices)
    + Cardinality(DOMAIN paymentMethods)

\* a database holding a company, and webhooks of two companies
InitWebhooks ==
    /\ now = 0
    /\ advances = 0
    /\ users = {"u1"}
    /\ companies = << [id |-> "co1", exemptVat |-> FALSE, country |-> "France"] >>
    /\ pdfConfigs = {"co1"}
    /\ mailTemplates = {[companyId |-> "co1", type |-> t] : t \in MailTemplateTypes}
    /\ clients = EmptyTable
    /\ quotes = EmptyTable
    /\ invoices = EmptyTable
    /\ receipts = EmptyTable
    /\ recurringInvoices = EmptyTable
    /\ paymentMethods = EmptyTable
    /\ signatures = EmptyTable
    /\ webhooks = SubscribedWebhooks
    /\ OTP = <<>>
    /\ otpExpirationTime = NoDate
    /\ otpUses = 0
    /\ last = Returned("init", NoId, NULL, NoDispatch)
    /\ InitExt

Failures == { {}, {"w1"} }

NextWebhooks ==
    \/ \E f \in Failures : Records < MaxRecords /\ createClient(CompanyClient, f)
    \/ \E f \in Failures, c \in DOMAIN clients :
           editClientsInfo([CompanyClient EXCEPT !.id = c], f)
    \/ \E f \in Failures, c \in DOMAIN clients : deleteClient(c, f)
    \/ \E f \in Failures :
           Records < MaxRecords /\ createQuote([clientId |-> 1, items |-> OneItem], f)
    \/ \E f \in Failures, q \in DOMAIN quotes : editQuote([id |-> q, items |-> OneItem], f)
    \/ \E f \in Failures, q \in DOMAIN quotes : deleteQuote(q, f)
    \/ \E f \in Failures, q \in DOMAIN quotes : markQuoteAsSigned(q, f)
    \/ \E f \in Failures :
           Records < MaxRecords /\ createInvoice([clientId |-> 1, items |-> OneItem], f)
    \/ \E f \in Failures, i \in DOMAIN invoices :
           editInvoice([id |-> i, clientId |-> 1, items |-> OneItem], f)
    \/ \E f \in Failures, i \in DOMAIN invoices : deleteInvoice(i, f)
    \/ \E f \in Failures, i \in DOMAIN invoices : markInvoiceAsPaid(i, f)
    \/ \E f \in Failures, i \in DOMAIN invoices :
           Records < MaxRecords /\ createReceipt([invoiceId |-> i, items |-> <<1>>], f)
    \/ \E f \in Failures, r \in DOMAIN receipts : editReceipt([id |-> r, items |-> <<1>>], f)
    \/ \E f \in Failures, r \in DOMAIN receipts : deleteReceipt(r, f)
    \/ \E f \in Failures :
           Records < MaxRecords
           /\ createRecurringInvoice([clientId |-> 1, items |-> OneItem], f)
    \/ \E f \in Failures, r \in DOMAIN recurringInvoices :
           updateRecurringInvoice(r, [items |-> OneItem], f)
    \/ \E f \in Failures, r \in DOMAIN recurringInvoices : deleteRecurringInvoice(r, f)
    \/ \E f \in Failures : Records < MaxRecords /\ create([name |-> "Bank"], f)
    \/ \E f \in Failures, p \in DOMAIN paymentMethods, a \in {"false", "undefined"} :
           update(p, [isActive |-> a], f)
    \/ \E f \in Failures, p \in DOMAIN paymentMethods : softDelete(p, f)

SpecWebhooks == InitWebhooks /\ [][NextWebhooks]_vars


(***************************************************************************)
(* The dispatcher on its own                                               *)
(***************************************************************************)
DispatchedEvents == {"QUOTE_CREATED", "CLIENT_CREATED", "INVOICE_CREATED"}
DispatchedPayloads ==
    [companyDotId : {NULL, "co1", "co2"}, companyId : {NULL, "co1", "co2"}]
WebhookIds == {webhooks[i].id : i \in 1..Len(webhooks)}

NextDispatch ==
    \E event \in DispatchedEvents, payload \in DispatchedPayloads, fails \in SUBSET WebhookIds :
        Dispatch(event, payload, fails)

SpecDispatch == Init /\ [][NextDispatch]_vars

(***************************************************************************)
(* Totals of quotes, invoices and recurring invoices                       *)
(***************************************************************************)
SubmittedItems ==
    << [ref |-> 0, quantity |-> 1, unitPrice |-> 3, vatRate |-> 5],
       [ref |-> 0, quantity |-> 2, unitPrice |-> 3, vatRate |-> 20],
       [ref |-> 0, quantity |-> 1, unitPrice |-> 1, vatRate |-> 10] >>
\* the submitted item lists: up to MaxItems items
ItemLists ==
    {SubSeq(SubmittedItems, 1, n) : n \in 1..Min(MaxItems, Len(SubmittedItems))}
    \cup {SubSeq(SubmittedItems, 2, 2)}
TotalsCompanies ==
    { [id |-> "co1", exemptVat |-> FALSE, country |-> "France"],
      [id |-> "co1", exemptVat |-> TRUE, country |-> "France"],
      [id |-> "co1", exemptVat |-> TRUE, country |-> "Germany"] }

\* a database holding a company and one of its clients
InitTotals ==
    /\ now = 0
    /\ advances = 0
    /\ users = {"u1"}
    /\ \E company \in TotalsCompanies : companies = <<company>>
    /\ pdfConfigs = {"co1"}
    /\ mailTemplates = {[companyId |-> "co1", type |-> t] : t \in MailTemplateTypes}
    /\ clients = Insert(EmptyTable, 1, [type |-> "COMPANY", isActive |-> TRUE,
                                        contactEmail |-> "client@acme.test"])
    /\ quotes = EmptyTable
    /\ invoices = EmptyTable
    /\ receipts = EmptyTable
    /\ recurringInvoices = EmptyTable
    /\ paymentMethods = EmptyTable
    /\ signatures = EmptyTable
    /\ webhooks = InitialWebhooks
    /\ OTP = <<>>
    /\ otpExpirationTime = NoDate
    /\ otpUses = 0
    /\ last = Returned("init", NoId, NULL, NoDispatch)
    /\ InitExt

NextTotals ==
    \/ \E items \in ItemLists : createQuote([clientId |-> 1, items |-> items], {})
    \/ \E q \in DOMAIN quotes, items \in ItemLists :
           editQuote([id |-> q, items |-> items], {})
    \/ \E items \in ItemLists : createInvoice([clientId |-> 1, items |-> items], {})
    \/ \E i \in DOMAIN invoices, items \in ItemLists :
           editInvoice([id |-> i, clientId |-> 1, items |-> items], {})
    \/ \E items \in ItemLists :
           createRecurringInvoice([clientId |-> 1, items |-> items], {})
    \/ \E r \in DOMAIN recurringInvoices, items \in ItemLists :
           updateRecurringInvoice(r, [items |-> items], {})

SpecTotals == InitTotals /\ [][NextTotals]_vars

(***************************************************************************)
(* The danger zone                                                         *)
(***************************************************************************)
OtpCodes == { <<"1", "2">>, <<"3", "4">> }
SuppliedCodes == OtpCodes \cup { <<"1", "-", "2">> }

\* a database holding one row of every kind, as the services leave them
InitDanger ==
    /\ now = 0
    /\ advances = 0
    /\ users = {"u1"}
    /\ companies = << [id |-> "co1", exemptVat |-> FALSE, country |-> "France"] >>
    /\ pdfConfigs = {"co1"}
    /\ mailTemplates = {[companyId |-> "co1", type |-> t] : t \in MailTemplateTypes}
    /\ clients = Insert(EmptyTable, 1, [type |-> "COMPANY", isActive |-> TRUE,
                                        contactEmail |-> "client@acme.test"])
    /\ quotes = Insert(EmptyTable, 1,
                       [clientId |-> 1, companyId |-> "co1", status |-> "SENT", isActive |-> TRUE,
                        totalHT |-> computeTotals(OneItem, FALSE).totalHT,
                        totalVAT |-> computeTotals(OneItem, FALSE).totalVAT,
                        totalTTC |-> computeTotals(OneItem, FALSE).totalTTC,
                        items |-> createItems(OneItem, FALSE)])
    /\ invoices = Insert(EmptyTable, 1,
                         [clientId |-> 1, companyId |-> "co1", status |-> "UNPAID",
                          isActive |-> TRUE,
                          totalHT |-> computeTotals(OneItem, FALSE).totalHT,
                          totalVAT |-> computeTotals(OneItem, FALSE).totalVAT,
                          totalTTC |-> computeTotals(OneItem, FALSE).totalTTC,
                          items |-> createItems(OneItem, FALSE)])
    /\ receipts = Insert(EmptyTable, 1,
                         [invoiceId |-> 1, items |-> <<1>>, totalPaid |-> receiptTotal(<<1>>)])
    /\ recurringInvoices = Insert(EmptyTable, 1,
                                  [clientId |-> 1, companyId |-> "co1",
                                   totalHT |-> recurringTotals(OneItem, FALSE).totalHT,
                                   totalVAT |-> recurringTotals(OneItem, FALSE).totalVAT,
                                   totalTTC |-> recurringTotals(OneItem, FALSE).totalTTC,
                                   items |-> createItems(OneItem, FALSE)])
    /\ paymentMethods = Insert(EmptyTable, 1, [companyId |-> "co1", isActive |-> TRUE])
    /\ signatures = Insert(EmptyTable, 1,
                           [quoteId |-> 1, isActive |-> TRUE, otpCode |-> NULL, otpUsed |-> FALSE,
                            createdAt |-> 0,
                            expiresAt |-> SignatureValidityDays * MinutesPerDay])
    /\ webhooks = InitialWebhooks
    /\ OTP = <<>>
    /\ otpExpirationTime = NoDate
    /\ otpUses = 0
    /\ last = Returned("init", NoId, NULL, NoDispatch)
    /\ InitExt

NextDanger ==
    \/ \E d \in {5, otpExpirationMinutes} : AdvanceTime(d)
    \/ \E otp \in OtpCodes, mailOk \in BOOLEAN : requestOtp(otp, mailOk)
    \/ \E otp \in SuppliedCodes : resetApp(otp)
    \/ \E otp \in SuppliedCodes : resetAll(otp)

SpecDanger == InitDanger /\ [][NextDanger]_vars

(***************************************************************************)
(* Invitations                                                             *)
(***************************************************************************)
\* one invitation that expires after a day, one that never does
CreatedInvitations == {[code |-> "A1", expiresInDays |-> 1], [code |-> "B2", expiresInDays |-> 0]}
InvitationCodes == {c.code : c \in CreatedInvitations}
SuppliedInvitationCodes == InvitationCodes \cup {"", "ZZ"}
InvitationTimeSteps == {MinutesPerDay, MinutesPerDay + 1}

\* a database with no user yet, or with two
InitInvitations ==
    /\ now = 0
    /\ advances = 0
    /\ users \in {{}, {"u1", "u2"}}
    /\ companies = <<>>
    /\ pdfConfigs = {}
    /\ mailTemplates = {}
    /\ clients = EmptyTable
    /\ quotes = EmptyTable
    /\ invoices = EmptyTable
    /\ receipts = EmptyTable
    /\ recurringInvoices = EmptyTable
    /\ paymentMethods = EmptyTable
    /\ signatures = EmptyTable
    /\ webhooks = <<>>
    /\ OTP = <<>>
    /\ otpExpirationTime = NoDate
    /\ otpUses = 0
    /\ last = Returned("init", NoId, NULL, NoDispatch)
    /\ InitExt

NextInvitations ==
    \/ \E d \in InvitationTimeSteps : AdvanceTime(d)
    \/ \E c \in CreatedInvitations : createInvitation(c.code, "u1", c.expiresInDays)
    \/ \E code \in SuppliedInvitationCodes : canRegister(code)
    \/ \E r \in 1..MaxRequests, code \in SuppliedInvitationCodes, userId \in {"u1", "u2"} :
           useInvitation_find(r, code, userId)
    \/ \E r \in 1..MaxRequests : useInvitation_update(r)

SpecInvitations == InitInvitations /\ [][NextInvitations]_vars


\* DirectoryService on a file system that holds the allowed roots and /etc.
SegNew == <<"n">>
InitialDirectories ==
    {<<>>, <<SegVar>>, <<SegVar, SegInvoicerr>>, <<SegHome>>, <<SegTmp>>, <<SegRoot>>, <<SegEtc>>}
PathSegs == {SegTmp, DotDot, SegNew}
SeqsUpTo(S, n) == UNION {[1..k -> S] : k \in 0..n}
ParentPaths == [absolute : BOOLEAN, segs : SeqsUpTo(PathSegs, MaxDepth)]
FolderNames == {<<>>, <<" ">>, SegNew, Dot, DotDot, <<"a", "/", "b">>, <<"a", "\\", "b">>,
                <<"n", ".", ".">>}

InitDirectories ==
    /\ now = 0
    /\ advances = 0
    /\ users = {}
    /\ companies = <<>>
    /\ pdfConfigs = {}
    /\ mailTemplates = {}
    /\ clients = EmptyTable
    /\ quotes = EmptyTable
    /\ invoices = EmptyTable
    /\ receipts = EmptyTable
    /\ recurringInvoices = EmptyTable
    /\ paymentMethods = EmptyTable
    /\ signatures = EmptyTable
    /\ webhooks = <<>>
    /\ OTP = <<>>
    /\ otpExpirationTime = NoDate
    /\ otpUses = 0
    /\ last = Returned("init", NoId, NULL, NoDispatch)
    /\ invitations = EmptyTable
    /\ plugins = EmptyTable
    /\ loadedPlugins = <<>>
    /\ directories = InitialDirectories
    /\ requests = EmptyTable

NextDirectories ==
    \E parentPath \in ParentPaths, folderName \in FolderNames :
        createDirectory(parentPath, folderName)

SpecDirectories == InitDirectories /\ [][NextDirectories]_vars


\* CompanyService.editCompanyInfo called by up to MaxRequests clients at once
\* on a database that holds no company.
CompanyDtos == [exemptVat : BOOLEAN, country : {"France", "Belgium"}]

InitCompany ==
    /\ now = 0
    /\ advances = 0
    /\ users = {"u1"}
    /\ companies = <<>>
    /\ pdfConfigs = {}
    /\ mailTemplates = {}
    /\ clients = EmptyTable
    /\ quotes = EmptyTable
    /\ invoices = EmptyTable
    /\ receipts = EmptyTable
    /\ recurringInvoices = EmptyTable
    /\ paymentMethods = EmptyTable
    /\ signatures = EmptyTable
    /\ webhooks = <<>>
    /\ OTP = <<>>
    /\ otpExpirationTime = NoDate
    /\ otpUses = 0
    /\ last = Returned("init", NoId, NULL, NoDispatch)
    /\ InitExt

NextCompany ==
    \/ \E r \in 1..MaxRequests, dto \in CompanyDtos : editCompanyInfo_findFirst(r, dto)
    \/ \E r \in 1..MaxRequests, newId \in CompanyIds : editCompanyInfo_write(r, newId, {})

SpecCompany == InitCompany /\ [][NextCompany]_vars


\* PluginsService constructed on a file system where each directory of
\* PLUGIN_DIRS is missing or holds up to two plugin subdirectories, each with
\* or without a .js file.
PluginNames == {<<"a">>, <<"b">>}
IndexJs == <<"i", "n", "d", "e", "x", ".", "j", "s">>
PluginEntries(pluginDir, name) ==
    {{}, {Append(pluginDir, name)},
     {Append(pluginDir, name), pluginDir \o <<name, IndexJs>>}}
PluginDirLayouts(pluginDir) ==
    {{}} \cup {{pluginDir} \cup ea \cup eb :
                  ea \in PluginEntries(pluginDir, <<"a">>),
                  eb \in PluginEntries(pluginDir, <<"b">>)}

InitPluginLoading ==
    /\ now = 0
    /\ advances = 0
    /\ users = {}
    /\ companies = <<>>
    /\ pdfConfigs = {}
    /\ mailTemplates = {}
    /\ clients = EmptyTable
    /\ quotes = EmptyTable
    /\ invoices = EmptyTable
    /\ receipts = EmptyTable
    /\ recurringInvoices = EmptyTable
    /\ paymentMethods = EmptyTable
    /\ signatures = EmptyTable
    /\ webhooks = <<>>
    /\ OTP = <<>>
    /\ otpExpirationTime = NoDate
    /\ otpUses = 0
    /\ last = Returned("init", NoId, NULL, NoDispatch)
    /\ invitations = EmptyTable
    /\ plugins = EmptyTable
    /\ loadedPlugins = <<>>
    /\ \E l1 \in PluginDirLayouts(PLUGIN_DIRS[1]), l2 \in PluginDirLayouts(PLUGIN_DIRS[2]) :
           directories = l1 \cup l2
    /\ requests = EmptyTable

NextPluginLoading == loadExistingPlugins

SpecPluginLoading == InitPluginLoading /\ [][NextPluginLoading]_vars


\* PluginsService on a plugin table with two plugins of a single-instance
\* type and two of a multi-instance type, none of them active.
InitialPlugins ==
    LET row(name, type) == [name |-> name, type |-> type, isActive |-> FALSE,
                            config |-> NULL, hasWebhook |-> FALSE]
    IN  [id \in {"p1", "p2", "p3", "p4"} |->
            CASE id = "p1" -> row("DocuSeal", "SIGNING")
              [] id = "p2" -> row("Documenso", "SIGNING")
              [] id = "p3" -> row("Stripe", "PAYMENT")
              [] id = "p4" -> row("PayPal", "PAYMENT")]
SuppliedPluginIds == DOMAIN InitialPlugins \cup {"p9"}

InitPlugins ==
    /\ now = 0
    /\ advances = 0
    /\ users = {}
    /\ companies = <<>>
    /\ pdfConfigs = {}
    /\ mailTemplates = {}
    /\ clients = EmptyTable
    /\ quotes = EmptyTable
    /\ invoices = EmptyTable
    /\ receipts = EmptyTable
    /\ recurringInvoices = EmptyTable
    /\ paymentMethods = EmptyTable
    /\ signatures = EmptyTable
    /\ webhooks = <<>>
    /\ OTP = <<>>
    /\ otpExpirationTime = NoDate
    /\ otpUses = 0
    /\ last = Returned("init", NoId, NULL, NoDispatch)
    /\ invitations = EmptyTable
    /\ plugins = InitialPlugins
    /\ loadedPlugins = <<>>
    /\ directories = {}
    /\ requests = EmptyTable

NextPlugins ==
    \/ \E id \in SuppliedPluginIds, hasForm \in BOOLEAN, handlesWebhook \in BOOLEAN :
           toggleInAppPlugin(id, hasForm, handlesWebhook)
    \/ \E id \in SuppliedPluginIds, handlesWebhook \in BOOLEAN :
           configureInAppPlugin(id, "cfg", handlesWebhook)

SpecPlugins == InitPlugins /\ [][NextPlugins]_vars


\* ReceiptsService on the invoices of one client: receipts of one or two
\* items that stay below, reach or exceed the total of the invoice.
ReceiptItemLists == {<<>>, <<1>>, <<4>>, <<7>>, <<1, 2>>, <<2, 2>>, <<3, 4>>}

NextReceipts ==
    \/ createInvoice([clientId |-> 1, items |-> OneItem], {})
    \/ \E i \in DOMAIN invoices, items \in {OneItem, TwoUnits} :
           editInvoice([id |-> i, clientId |-> 1, items |-> items], {})
    \/ \E i \in 1..MaxInvoices, items \in ReceiptItemLists :
           createReceipt([invoiceId |-> i, items |-> items], {})
    \/ \E r \in 1..MaxReceipts, items \in ReceiptItemLists :
           editReceipt([id |-> r, items |-> items], {})
    \/ \E r \in DOMAIN receipts : deleteReceipt(r, {})

SpecReceipts == InitInvoices /\ [][NextReceipts]_vars


\* DashboardService on two invoices created on the first, a middle or the
\* last day of a month or year, at midnight or at noon.
Noon == 12 * 60
RevenueDates ==
    {NewDate(BaseYear, 0, 1), NewDate(BaseYear, 0, 15) + Noon,
     NewDate(BaseYear, 0, 31), NewDate(BaseYear, 0, 31) + Noon,
     NewDate(BaseYear, 1, 1),
     NewDate(BaseYear, 11, 31) + Noon, NewDate(BaseYear + 1, 0, 1)}

InitRevenue ==
    /\ now = 0
    /\ advances = 0
    /\ users = {"u1"}
    /\ companies = << [id |-> "co1", exemptVat |-> FALSE, country |-> "France"] >>
    /\ pdfConfigs = {"co1"}
    /\ mailTemplates = {[companyId |-> "co1", type |-> t] : t \in MailTemplateTypes}
    /\ clients = EmptyTable
    /\ quotes = EmptyTable
    /\ \E c1 \in RevenueDates, c2 \in RevenueDates, s2 \in {"PAID", "UNPAID"} :
           invoices = [i \in {1, 2} |->
                          [companyId |-> "co1",
                           status |-> IF i = 1 THEN "PAID" ELSE s2,
                           totalTTC |-> FromInt(i),
                           createdAt |-> IF i = 1 THEN c1 ELSE c2]]
    /\ receipts = EmptyTable
    /\ recurringInvoices = EmptyTable
    /\ paymentMethods = EmptyTable
    /\ signatures = EmptyTable
    /\ webhooks = <<>>
    /\ OTP = <<>>
    /\ otpExpirationTime = NoDate
    /\ otpUses = 0
    /\ last = Returned("init", NoId, NULL, NoDispatch)
    /\ InitExt

NextRevenue ==
    \/ \E date \in RevenueDates : getMonthlyRevenue(date)
    \/ \E date \in RevenueDates : getYearlyRevenue(date)

SpecRevenue == InitRevenue /\ [][NextRevenue]_vars


\* a step is a call of op that changed something or whose outcome differs
\* from the previous call's
Called(op) ==
    /\ last'.op = op
    /\ <<last, dbVars, dangerVars>>' # <<last, dbVars, dangerVars>>

(***************************************************************************)
(* Claims                                                                  *)
(***************************************************************************)

\* C1: every change of a quote's status is DRAFT -> SENT or SENT -> SIGNED;
\* the status never moves backward and never skips SENT.
C1_StatusMovesForward ==
    [][\A q \in DOMAIN quotes \cap DOMAIN quotes' :
          quotes'[q].status # quotes[q].status =>
              <<quotes[q].status, quotes'[q].status>> \in
                  {<<"DRAFT", "SENT">>, <<"SENT", "SIGNED">>}]_vars

C10_SignatureExpiresAfter30Days ==
    [][(Called("generateOTPCode") \/ Called("signQuote")) /\ last'.ok =>
          now <= signatures[last'.arg].createdAt + SignatureValidityDays * MinutesPerDay]_vars


\* C2: a paid invoice stays paid: no call of createReceipt, editReceipt,
\* deleteReceipt, markInvoiceAsPaid, editInvoice or deleteInvoice changes an
\* invoice's status other than from UNPAID to PAID.
C2_PaidStaysPaid ==
    [][\A i \in DOMAIN invoices \cap DOMAIN invoices' :
          /\ invoices[i].status = "PAID" => invoices'[i].status = "PAID"
          /\ invoices'[i].status # invoices[i].status =>
                 invoices[i].status = "UNPAID" /\ invoices'[i].status = "PAID"]_vars

\* a paid invoice whose receipts no longer cover its total, just after one
\* of its receipts was deleted
C2_Witness ==
    /\ last.op = "deleteReceipt" /\ last.ok
    /\ last.ret.invoiceId \in DOMAIN invoices
    /\ invoices[last.ret.invoiceId].status = "PAID"
    /\ ~FGe(paidFor(receipts, last.ret.invoiceId, MaxReceipts),
            invoices[last.ret.invoiceId].totalTTC)


\* C3: when the webhook dispatch that follows the database write of a
\* mutating operation fails, the failure is caught and logged, the operation
\* returns its normal result, and the row it wrote (or removed) stays
\* written (or removed).
C3_DispatchFailureIsCaught ==
    [][last'.dispatch.failed /\ last' # last =>
          /\ last'.ok
          /\ last'.dispatch.logged
          /\ LET op == last'.op
                 id == last'.arg
                 Kept(table) == id \in DOMAIN table /\ table[id] = last'.ret
             IN  CASE op \in {"createClient", "editClientsInfo", "deleteClient"} ->
                          Kept(clients')
                   [] op \in {"createQuote", "editQuote", "deleteQuote", "markQuoteAsSigned"} ->
                          Kept(quotes')
                   [] op \in {"createInvoice", "editInvoice", "deleteInvoice",
                              "markInvoiceAsPaid"} ->
                          Kept(invoices')
                   [] op \in {"createReceipt", "editReceipt"} -> Kept(receipts')
                   [] op = "deleteReceipt" -> id \in DOMAIN receipts \ DOMAIN receipts'
                   [] op \in {"createRecurringInvoice", "updateRecurringInvoice"} ->
                          Kept(recurringInvoices')
                   [] op = "deleteRecurringInvoice" ->
                          id \in DOMAIN recurringInvoices \ DOMAIN recurringInvoices'
                   [] op \in {"create", "update", "softDelete"} -> Kept(paymentMethods')
                   [] OTHER -> FALSE]_vars

\* markInvoiceAsPaid returned the paid invoice although a webhook delivery
\* failed
C3_Witness ==
    /\ last.op = "markInvoiceAsPaid"
    /\ last.ok
    /\ last.dispatch.failed
    /\ last.dispatch.attempted # last.dispatch.notified
    /\ invoices[last.arg].status = "PAID"


\* C4: dispatch(event, payload) attempts a delivery to exactly the webhooks
\* whose events contain the event and, when the payload carries a company id
\* (payload.company.id, else payload.companyId), whose companyId is that id;
\* every one of them is attempted whichever deliveries fail, and the call
\* fails when one of them does.
C4_DispatchReachesSubscribers ==
    last.op = "dispatch" =>
        LET event == last.arg.event
            payload == last.arg.payload
            id == IF payload.companyDotId # NULL THEN payload.companyDotId
                  ELSE payload.companyId
            subscribers == {webhooks[i].id : i \in
                               {k \in 1..Len(webhooks) :
                                   /\ event \in webhooks[k].events
                                   /\ id # NULL => webhooks[k].companyId = id}}
        IN  /\ last.dispatch.attempted = {<<event, w>> : w \in subscribers}
            /\ last.dispatch.notified = {<<event, w>> : w \in subscribers \ last.arg.fails}
            /\ last.ok = (subscribers \cap last.arg.fails = {})

\* the delivery to w1 failed and the delivery to w2 was still made
C4_Witness ==
    /\ last.op = "dispatch"
    /\ ~last.ok
    /\ last.arg.fails = {"w1"}
    /\ last.dispatch.attempted = {<<"QUOTE_CREATED", "w1">>, <<"QUOTE_CREATED", "w2">>}
    /\ last.dispatch.notified = {<<"QUOTE_CREATED", "w2">>}


\* C5: every stored quote, invoice and recurring invoice has
\* totalTTC = totalHT + totalVAT, with totalHT the sum of quantity x unitPrice
\* over its items; when the company is VAT exempt in France, totalVAT = 0,
\* totalTTC = totalHT and every stored item has vatRate 0.
C5_TotalsAddUp ==
    \A table \in {quotes, invoices, recurringInvoices} :
        \A id \in DOMAIN table :
            LET r == table[id]
            IN  /\ r.totalHT = SumOver([i \in 1..Len(r.items) |->
                                           FMul(FromInt(r.items[i].quantity),
                                                FromInt(r.items[i].unitPrice))])
                /\ r.totalTTC = FAdd(r.totalHT, r.totalVAT)
                /\ companies[1].exemptVat /\ companies[1].country \in {"France", "FRANCE"} =>
                       /\ r.totalVAT = FZero
                       /\ r.totalTTC = r.totalHT
                       /\ \A i \in 1..Len(r.items) : r.items[i].vatRate = 0


\* C6: resetApp and resetAll succeed only when the supplied code, dashes
\* removed, is the code of the latest requestOtp and the clock is before its
\* expiry, which requestOtp sets to 10 minutes after the call; otherwise
\* they throw 'Invalid or expired OTP' and change no data.  No code is
\* accepted before the first requestOtp.
C6_ResetNeedsValidOtp ==
    [][/\ Called("resetApp") \/ Called("resetAll") =>
            IF last'.ok
            THEN /\ OTP # <<>>
                 /\ RemoveDashes(last'.arg) = OTP
                 /\ now < otpExpirationTime
            ELSE /\ last'.error = "Invalid or expired OTP"
                 /\ dbVars' = dbVars
       /\ Called("requestOtp") =>
            /\ OTP' = last'.arg
            /\ otpExpirationTime' = now + otpExpirationMinutes
       /\ ~Called("requestOtp") /\ OTP' # <<>> =>
            /\ OTP' = OTP
            /\ otpExpirationTime' = otpExpirationTime]_vars

\* resetApp accepted the code written with a dash, five minutes after it
\* was requested
C6_Witness ==
    /\ last.op = "resetApp"
    /\ last.ok
    /\ last.arg = <<"1", "-", "2">>
    /\ now = 5
    /\ companies = <<>>

\* C7: once resetApp or resetAll has accepted a code, neither accepts a
\* code again until requestOtp is called.
C7_OtpClearedAfterUse ==
    [][(Called("resetApp") \/ Called("resetAll")) /\ last'.ok => otpUses = 0]_vars

\* C8: after a successful resetApp no company, PDF config, mail template,
\* client, quote, invoice, signature, receipt, recurring invoice, payment
\* method or webhook remains, and the users are unchanged.
C8_ResetAppLeavesOnlyUsers ==
    [][Called("resetApp") /\ last'.ok =>
          /\ companies' = <<>>
          /\ pdfConfigs' = {}
          /\ mailTemplates' = {}
          /\ clients' = EmptyTable
          /\ quotes' = EmptyTable
          /\ invoices' = EmptyTable
          /\ signatures' = EmptyTable
          /\ receipts' = EmptyTable
          /\ recurringInvoices' = EmptyTable
          /\ paymentMethods' = EmptyTable
          /\ webhooks' = <<>>
          /\ users' = users]_vars


\* C11: an invitation code is used at most once: a call of useInvitation
\* succeeds only on a code no call has used, and once usedById is set no
\* later call changes it.
C11_InvitationUsedOnce ==
    [][\A code \in DOMAIN invitations :
          /\ (last'.op = "useInvitation" /\ last'.ok /\ last'.arg = code
              /\ invitations' # invitations) =>
                 invitations[code].usedAt = NoDate
          /\ invitations[code].usedById # NULL =>
                 invitations'[code].usedById = invitations[code].usedById]_vars

\* C12: with no user, canRegister allows registration without a code; with
\* a user, it allows it exactly for a code that exists, is unused and is not
\* expired, and otherwise answers allowed = false, requiresCode = true; it
\* answers allowed = true, requiresCode = true exactly when useInvitation
\* passes its checks for the same code in the same state.
C12_CanRegisterMatchesUse ==
    [][last'.op = "canRegister" /\ last' # last =>
          LET code == last'.arg
              result == last'.ret
              usable == /\ code \in DOMAIN invitations
                        /\ invitations[code].usedAt = NoDate
                        /\ \/ invitations[code].expiresAt = NoDate
                           \/ now <= invitations[code].expiresAt
          IN  /\ users = {} => result.allowed /\ ~result.requiresCode
              /\ users # {} => result.requiresCode /\ (result.allowed <=> usable)
              /\ (result.allowed /\ result.requiresCode) <=> useInvitation_Error(code) = ""]_vars

\* canRegister refused a code the day after it expired, and allowed another
C12_Witness ==
    /\ last.op = "canRegister"
    /\ ~last.ret.allowed
    /\ last.ret.message = "This invitation code has expired"
    /\ \E code \in DOMAIN invitations : canRegister_Result(code).allowed

\* C14: createDirectory creates a directory only at a path that lies within
\* one of the allowed roots; a request whose resulting path lies outside all
\* of them is rejected and creates nothing.
C14_CreatedWithinAllowedRoots ==
    [][\A d \in directories' \ directories :
           isPathAllowed([absolute |-> TRUE, segs |-> d])]_vars

\* C18: at most one company record exists in every state reached by calls
\* of editCompanyInfo, including calls that interleave while no company
\* exists: the first call creates the record, every other call updates it.
C18_AtMostOneCompany == Len(companies) <= 1

\* C17: loadExistingPlugins scans every directory of PLUGIN_DIRS that exists
\* and loads every plugin subdirectory that can be loaded; a missing
\* directory or a plugin that fails to load does not keep the plugins of the
\* remaining directories from loading.
C17_LoadsEveryExistingDirectory ==
    last.op = "loadExistingPlugins" =>
        \A i \in 1..Len(PLUGIN_DIRS) :
            existsSync(PLUGIN_DIRS[i]) =>
                \A f \in readdirSync(PLUGIN_DIRS[i]) :
                    LET pluginPath == Append(PLUGIN_DIRS[i], f)
                    IN  isDirectory(pluginPath) /\ jsFileOf(pluginPath) # <<>> =>
                            \E k \in 1..Len(loadedPlugins) :
                                loadedPlugins[k] = Append(pluginPath, jsFileOf(pluginPath))

\* C13: for every plugin type that is not multi-instance, at most one plugin
\* of the type is active after any call of toggleInAppPlugin or
\* configureInAppPlugin; a call that would activate a plugin of such a type
\* while another plugin of the type is active is rejected with 'Another
\* plugin "<name>" is already active for category "<type>". Please disable it
\* first.' and changes no plugin.
C13_OneActivePluginPerType ==
    [][/\ \A type \in PluginTypes \ multiInstancePluginTypes :
              Cardinality({p \in DOMAIN plugins' :
                              plugins'[p].type = type /\ plugins'[p].isActive}) <= 1
       /\ \A id \in DOMAIN plugins :
              (/\ last'.op \in {"toggleInAppPlugin", "configureInAppPlugin"}
               /\ last'.arg = id
               /\ ~plugins[id].isActive
               /\ plugins[id].type \notin multiInstancePluginTypes
               /\ \E p \in DOMAIN plugins \ {id} :
                      plugins[p].type = plugins[id].type /\ plugins[p].isActive)
              => /\ ~last'.ok
                 /\ \E p \in DOMAIN plugins \ {id} :
                        last'.error = AnotherPluginActive(plugins[p].name, plugins[id].type)
                 /\ plugins' = plugins]_vars

\* a plugin of a single-instance type was refused while another one of the
\* type is active
C13_Witness ==
    /\ ~last.ok
    /\ last.op = "toggleInAppPlugin"
    /\ last.arg = "p2"
    /\ last.error = AnotherPluginActive("DocuSeal", "SIGNING")
    /\ plugins["p1"].isActive
    /\ ~plugins["p2"].isActive

C16_RevenueCoversWholePeriod ==
    /\ last.op = "getMonthlyRevenue" =>
           last.ret = RevenueOf({i \in DOMAIN invoices :
                                    /\ invoices[i].status = "PAID"
                                    /\ getFullYear(invoices[i].createdAt) = getFullYear(last.arg)
                                    /\ getMonth(invoices[i].createdAt) = getMonth(last.arg)})
    /\ last.op = "getYearlyRevenue" =>
           last.ret = RevenueOf({i \in DOMAIN invoices :
                                    /\ invoices[i].status = "PAID"
                                    /\ getFullYear(invoices[i].createdAt) = getFullYear(last.arg)})

====
